---- MODULE Spec2Model ----
(***************************************************************************)
(* Model of the model-selection core of perplexity-mcp-zerver:             *)
(*   src/utils/model-config.ts            catalog, policy, resolver,       *)
(*                                        validator                        *)
(*   src/utils/model-selection.ts         the three versions of the UI     *)
(*                                        selection engine kept in the file*)
(*   src/utils/model-reasoning-toggle.ts  the reasoning toggle             *)
(*                                                                         *)
(* JavaScript strings are sequences of one-character strings, so that      *)
(* toLowerCase, trim, includes and the regular expressions are computed    *)
(* character by character.  Characters outside ASCII are written as named  *)
(* atoms ("ru_m" is CYRILLIC SMALL LETTER EM, and so on).                  *)
(***************************************************************************)
EXTENDS Integers, Sequences, FiniteSets, TLC

VARIABLES
  pure,   \* one call of a pure function of model-config.ts: argument, result
  page,   \* the live page owned by the browser controller
  call    \* the invocations of the selection engine: position, locals, outcome

vars == <<pure, page, call>>

(***************************************************************************)
(* Strings                                                                 *)
(***************************************************************************)
UpperAlpha == <<"A","B","C","D","E","F","G","H","I","J","K","L","M","N","O","P","Q","R","S","T","U","V","W","X","Y","Z",
                "RU_M","RU_O","RU_D","RU_E","RU_L","RU_SOFT">>

LowerAlpha == <<"a","b","c","d","e","f","g","h","i","j","k","l","m","n","o","p","q","r","s","t","u","v","w","x","y","z",
                "ru_m","ru_o","ru_d","ru_e","ru_l","ru_soft">>

\* String.prototype.toLowerCase on one character
toLowerCaseChar(c) ==
  IF \E i \in DOMAIN UpperAlpha : UpperAlpha[i] = c
  THEN LowerAlpha[CHOOSE i \in DOMAIN UpperAlpha : UpperAlpha[i] = c]
  ELSE c

\* String.prototype.toUpperCase on one character
toUpperCaseChar(c) ==
  IF \E i \in DOMAIN LowerAlpha : LowerAlpha[i] = c
  THEN UpperAlpha[CHOOSE i \in DOMAIN LowerAlpha : LowerAlpha[i] = c]
  ELSE c

toLowerCase(s) == [i \in 1..Len(s) |-> toLowerCaseChar(s[i])]

toUpperCase(s) == [i \in 1..Len(s) |-> toUpperCaseChar(s[i])]

WhiteSpace == {" ", "\t", "\n"}

RECURSIVE trimStart(_)
trimStart(s) ==
  IF s # <<>> /\ Head(s) \in WhiteSpace THEN trimStart(Tail(s)) ELSE s

RECURSIVE trimEnd(_)
trimEnd(s) ==
  IF s # <<>> /\ s[Len(s)] \in WhiteSpace THEN trimEnd(SubSeq(s, 1, Len(s) - 1)) ELSE s

\* String.prototype.trim
trim(s) == trimEnd(trimStart(s))

\* String.prototype.includes
includes(text, sub) ==
  \E i \in 0..(Len(text) - Len(sub)) : SubSeq(text, i + 1, i + Len(sub)) = sub

\* RegExp.prototype.test for a pattern /^word$/i: the whole input, compared
\* character by character after the canonicalisation of the i flag
\* (toUpperCase of each character).
testExactIgnoreCase(word, s) ==
  /\ Len(s) = Len(word)
  /\ \A i \in 1..Len(word) : toUpperCaseChar(s[i]) = toUpperCaseChar(word[i])

\* RegExp.prototype.test for a pattern /(a|b|...)/: some alternative occurs
\* in the input, case-sensitively.
testAnyOf(alternatives, s) == \E a \in alternatives : includes(s, a)

(***************************************************************************)
(* model-config.ts: the catalog                                            *)
(***************************************************************************)
\* The catalog with isDefault also set on its second entry
AVAILABLE_MODELS_secondDefault == <<
  [name        |-> <<"c","l","a","u","d","e","-","s","o","n","n","e","t","-","4",".","6">>,
   displayName |-> <<"C","l","a","u","d","e"," ","S","o","n","n","e","t"," ","4",".","6">>,
   selectorText|-> <<"C","l","a","u","d","e"," ","S","o","n","n","e","t"," ","4",".","6">>,
   isDefault   |-> TRUE],
  [name        |-> <<"g","e","m","i","n","i","-","3",".","1","-","p","r","o">>,
   displayName |-> <<"G","e","m","i","n","i"," ","3",".","1"," ","P","r","o">>,
   selectorText|-> <<"G","e","m","i","n","i"," ","3",".","1"," ","P","r","o">>,
   isDefault   |-> TRUE],
  [name        |-> <<"g","e","m","i","n","i","-","3","-","f","l","a","s","h">>,
   displayName |-> <<"G","e","m","i","n","i"," ","3"," ","F","l","a","s","h">>,
   selectorText|-> <<"G","e","m","i","n","i"," ","3"," ","F","l","a","s","h">>,
   isDefault   |-> FALSE],
  [name        |-> <<"g","p","t","-","5",".","2">>,
   displayName |-> <<"G","P","T","-","5",".","2">>,
   selectorText|-> <<"G","P","T","-","5",".","2">>,
   isDefault   |-> FALSE],
  [name        |-> <<"g","r","o","k","-","4",".","1">>,
   displayName |-> <<"G","r","o","k"," ","4",".","1">>,
   selectorText|-> <<"G","r","o","k"," ","4",".","1">>,
   isDefault   |-> FALSE],
  [name        |-> <<"k","i","m","i","-","k","2",".","5">>,
   displayName |-> <<"K","i","m","i"," ","K","2",".","5">>,
   selectorText|-> <<"K","i","m","i"," ","K","2",".","5">>,
   isDefault   |-> FALSE],
  [name        |-> <<"c","l","a","u","d","e","-","o","p","u","s","-","4",".","6">>,
   displayName |-> <<"C","l","a","u","d","e"," ","O","p","u","s"," ","4",".","6">>,
   selectorText|-> <<"C","l","a","u","d","e"," ","O","p","u","s"," ","4",".","6">>,
   isDefault   |-> FALSE],
  [name        |-> <<"r","e","a","s","o","n","i","n","g">>,
   displayName |-> <<"R","e","a","s","o","n","i","n","g">>,
   selectorText|-> <<"R","e","a","s","o","n","i","n","g">>,
   isDefault   |-> FALSE],
  [name        |-> <<"s","o","n","a","r">>,
   displayName |-> <<"S","o","n","a","r">>,
   selectorText|-> <<"S","o","n","a","r">>,
   isDefault   |-> FALSE] >>

\* A catalog in which the identifier of one entry is, ignoring case, the
\* label of another: "reasoning" is shown as "Sonar", "sonar" as "Reasoning"
AVAILABLE_MODELS_crossedLabels == <<
  [name        |-> <<"c","l","a","u","d","e","-","s","o","n","n","e","t","-","4",".","6">>,
   displayName |-> <<"C","l","a","u","d","e"," ","S","o","n","n","e","t"," ","4",".","6">>,
   selectorText|-> <<"C","l","a","u","d","e"," ","S","o","n","n","e","t"," ","4",".","6">>,
   isDefault   |-> TRUE],
  [name        |-> <<"g","e","m","i","n","i","-","3",".","1","-","p","r","o">>,
   displayName |-> <<"G","e","m","i","n","i"," ","3",".","1"," ","P","r","o">>,
   selectorText|-> <<"G","e","m","i","n","i"," ","3",".","1"," ","P","r","o">>,
   isDefault   |-> FALSE],
  [name        |-> <<"g","e","m","i","n","i","-","3","-","f","l","a","s","h">>,
   displayName |-> <<"G","e","m","i","n","i"," ","3"," ","F","l","a","s","h">>,
   selectorText|-> <<"G","e","m","i","n","i"," ","3"," ","F","l","a","s","h">>,
   isDefault   |-> FALSE],
  [name        |-> <<"g","p","t","-","5",".","2">>,
   displayName |-> <<"G","P","T","-","5",".","2">>,
   selectorText|-> <<"G","P","T","-","5",".","2">>,
   isDefault   |-> FALSE],
  [name        |-> <<"g","r","o","k","-","4",".","1">>,
   displayName |-> <<"G","r","o","k"," ","4",".","1">>,
   selectorText|-> <<"G","r","o","k"," ","4",".","1">>,
   isDefault   |-> FALSE],
  [name        |-> <<"k","i","m","i","-","k","2",".","5">>,
   displayName |-> <<"K","i","m","i"," ","K","2",".","5">>,
   selectorText|-> <<"K","i","m","i"," ","K","2",".","5">>,
   isDefault   |-> FALSE],
  [name        |-> <<"c","l","a","u","d","e","-","o","p","u","s","-","4",".","6">>,
   displayName |-> <<"C","l","a","u","d","e"," ","O","p","u","s"," ","4",".","6">>,
   selectorText|-> <<"C","l","a","u","d","e"," ","O","p","u","s"," ","4",".","6">>,
   isDefault   |-> FALSE],
  [name        |-> <<"r","e","a","s","o","n","i","n","g">>,
   displayName |-> <<"S","o","n","a","r">>,
   selectorText|-> <<"S","o","n","a","r">>,
   isDefault   |-> FALSE],
  [name        |-> <<"s","o","n","a","r">>,
   displayName |-> <<"R","e","a","s","o","n","i","n","g">>,
   selectorText|-> <<"R","e","a","s","o","n","i","n","g">>,
   isDefault   |-> FALSE] >>

AVAILABLE_MODELS == <<
  [name        |-> <<"c","l","a","u","d","e","-","s","o","n","n","e","t","-","4",".","6">>,
   displayName |-> <<"C","l","a","u","d","e"," ","S","o","n","n","e","t"," ","4",".","6">>,
   selectorText|-> <<"C","l","a","u","d","e"," ","S","o","n","n","e","t"," ","4",".","6">>,
   isDefault   |-> TRUE],
  [name        |-> <<"g","e","m","i","n","i","-","3",".","1","-","p","r","o">>,
   displayName |-> <<"G","e","m","i","n","i"," ","3",".","1"," ","P","r","o">>,
   selectorText|-> <<"G","e","m","i","n","i"," ","3",".","1"," ","P","r","o">>,
   isDefault   |-> FALSE],
  [name        |-> <<"g","e","m","i","n","i","-","3","-","f","l","a","s","h">>,
   displayName |-> <<"G","e","m","i","n","i"," ","3"," ","F","l","a","s","h">>,
   selectorText|-> <<"G","e","m","i","n","i"," ","3"," ","F","l","a","s","h">>,
   isDefault   |-> FALSE],
  [name        |-> <<"g","p","t","-","5",".","2">>,
   displayName |-> <<"G","P","T","-","5",".","2">>,
   selectorText|-> <<"G","P","T","-","5",".","2">>,
   isDefault   |-> FALSE],
  [name        |-> <<"g","r","o","k","-","4",".","1">>,
   displayName |-> <<"G","r","o","k"," ","4",".","1">>,
   selectorText|-> <<"G","r","o","k"," ","4",".","1">>,
   isDefault   |-> FALSE],
  [name        |-> <<"k","i","m","i","-","k","2",".","5">>,
   displayName |-> <<"K","i","m","i"," ","K","2",".","5">>,
   selectorText|-> <<"K","i","m","i"," ","K","2",".","5">>,
   isDefault   |-> FALSE],
  [name        |-> <<"c","l","a","u","d","e","-","o","p","u","s","-","4",".","6">>,
   displayName |-> <<"C","l","a","u","d","e"," ","O","p","u","s"," ","4",".","6">>,
   selectorText|-> <<"C","l","a","u","d","e"," ","O","p","u","s"," ","4",".","6">>,
   isDefault   |-> FALSE],
  [name        |-> <<"r","e","a","s","o","n","i","n","g">>,
   displayName |-> <<"R","e","a","s","o","n","i","n","g">>,
   selectorText|-> <<"R","e","a","s","o","n","i","n","g">>,
   isDefault   |-> FALSE],
  [name        |-> <<"s","o","n","a","r">>,
   displayName |-> <<"S","o","n","a","r">>,
   selectorText|-> <<"S","o","n","a","r">>,
   isDefault   |-> FALSE] >>

\* The words of the patterns /^word$/i, in the order of the array
BANNED_MODEL_PATTERNS == <<
  <<"m","o","d","e","l">>,
  <<"s","o","n","a","r">>,
  <<"ru_m","ru_o","ru_d","ru_e","ru_l","ru_soft">>,
  <<"m","o","d","e","l","o">>,
  <<"ja_mo","ja_de","ja_ru">> >>

\* The names model-config.ts imports or declares besides its exports: the
\* file has no import statement, so logWarn is not bound in it.
ModelConfigBindings == {}

\* A call of logWarn in model-config.ts evaluates the identifier first
logWarnIsBound == "logWarn" \in ModelConfigBindings

(***************************************************************************)
(* model-config.ts: policy, resolver, validator                            *)
(***************************************************************************)
\* isModelAllowed testing the input as given, without trim
isModelAllowed_untrimmed(modelName) ==
  ~ \E k \in DOMAIN BANNED_MODEL_PATTERNS :
        testExactIgnoreCase(BANNED_MODEL_PATTERNS[k], modelName)

isModelAllowed(modelName) ==
  ~ \E k \in DOMAIN BANNED_MODEL_PATTERNS :
        testExactIgnoreCase(BANNED_MODEL_PATTERNS[k], trim(modelName))

\* Array.prototype.find over the catalog: hit[i] says whether entry i satisfies
\* the predicate; the index of the first entry that does, 0 for undefined
find(hit) ==
  IF \E i \in DOMAIN hit : hit[i]
  THEN CHOOSE i \in DOMAIN hit : hit[i] /\ \A j \in 1..(i - 1) : ~ hit[j]
  ELSE 0

\* getModelConfig matching the canonical identifier only
getModelConfig_nameOnly(modelName) ==
  LET normalizedName == trim(toLowerCase(modelName))
  IN  find([i \in DOMAIN AVAILABLE_MODELS |->
              toLowerCase(AVAILABLE_MODELS[i].name) = normalizedName])

\* getModelConfig without the toLowerCase of its input
getModelConfig_caseSensitive(modelName) ==
  LET normalizedName == trim(modelName)
      byName     == find([i \in DOMAIN AVAILABLE_MODELS |->
                            toLowerCase(AVAILABLE_MODELS[i].name) = normalizedName])
      byDisplay  == find([i \in DOMAIN AVAILABLE_MODELS |->
                            toLowerCase(AVAILABLE_MODELS[i].displayName) = normalizedName])
      bySelector == find([i \in DOMAIN AVAILABLE_MODELS |->
                            toLowerCase(AVAILABLE_MODELS[i].selectorText) = normalizedName])
  IN  IF byName # 0 THEN byName
      ELSE IF byDisplay # 0 THEN byDisplay
      ELSE bySelector

getModelConfig(modelName) ==
  LET normalizedName == trim(toLowerCase(modelName))
      byName     == find([i \in DOMAIN AVAILABLE_MODELS |->
                            toLowerCase(AVAILABLE_MODELS[i].name) = normalizedName])
      byDisplay  == find([i \in DOMAIN AVAILABLE_MODELS |->
                            toLowerCase(AVAILABLE_MODELS[i].displayName) = normalizedName])
      bySelector == find([i \in DOMAIN AVAILABLE_MODELS |->
                            toLowerCase(AVAILABLE_MODELS[i].selectorText) = normalizedName])
  IN  IF byName # 0 THEN byName
      ELSE IF byDisplay # 0 THEN byDisplay
      ELSE bySelector

\* The outcome of a call: a returned value or a raised error
Return(v, warned, consulted) ==
  [kind |-> "return", value |-> v, error |-> "", warned |-> warned, consulted |-> consulted]

Throw(e, consulted) ==
  [kind |-> "throw", value |-> <<>>, error |-> e, warned |-> FALSE, consulted |-> consulted]

getDefaultModel ==
  LET defaultModel == find([i \in DOMAIN AVAILABLE_MODELS |-> AVAILABLE_MODELS[i].isDefault])
  IN  IF defaultModel = 0
      THEN Throw("Error: No default model configured", {})
      ELSE Return(AVAILABLE_MODELS[defaultModel].name, FALSE, {})

\* logWarn(...) followed by return getDefaultModel().name
WarnThenDefault(consulted) ==
  IF ~ logWarnIsBound
  THEN Throw("ReferenceError: logWarn is not defined", consulted)
  ELSE IF getDefaultModel.kind = "throw"
       THEN Throw(getDefaultModel.error, consulted)
       ELSE Return(getDefaultModel.value, TRUE, consulted)

\* An argument of type string | undefined
Absent == [present |-> FALSE, s |-> <<>>]

Present(s) == [present |-> TRUE, s |-> s]

\* getValidatedModel testing modelName === undefined instead of !modelName
getValidatedModel_undefinedOnly(modelName) ==
  IF ~ modelName.present
  THEN getDefaultModel
  ELSE LET modelConfig == getModelConfig(modelName.s)
       IN  IF modelConfig = 0
           THEN WarnThenDefault({"resolver"})
           ELSE IF ~ isModelAllowed(AVAILABLE_MODELS[modelConfig].name)
                THEN WarnThenDefault({"resolver", "policy"})
                ELSE Return(AVAILABLE_MODELS[modelConfig].name, FALSE, {"resolver", "policy"})

getValidatedModel(modelName) ==
  IF ~ modelName.present \/ modelName.s = <<>>
  THEN getDefaultModel
  ELSE LET modelConfig == getModelConfig(modelName.s)
       IN  IF modelConfig = 0
           THEN WarnThenDefault({"resolver"})
           ELSE IF ~ isModelAllowed(AVAILABLE_MODELS[modelConfig].name)
                THEN WarnThenDefault({"resolver", "policy"})
                ELSE Return(AVAILABLE_MODELS[modelConfig].name, FALSE, {"resolver", "policy"})

(***************************************************************************)
(* Callers' inputs                                                         *)
(***************************************************************************)
\* Every way of writing s with each letter in upper or in lower case
RECURSIVE CaseVariants(_)
CaseVariants(s) ==
  IF s = <<>> THEN {<<>>}
  ELSE LET rest == CaseVariants(Tail(s))
       IN  { <<c>> \o r : c \in {toLowerCaseChar(Head(s)), toUpperCaseChar(Head(s))},
                          r \in rest }

\* The strings the resolver compares with: identifier, display label, selector label
CatalogKeys ==
  UNION { {AVAILABLE_MODELS[i].name, AVAILABLE_MODELS[i].displayName,
           AVAILABLE_MODELS[i].selectorText} : i \in DOMAIN AVAILABLE_MODELS }

\* The longest run of blanks put before and after a key
MaxPad == 1

Blanks(n) == [i \in 1..n |-> " "]

PaddedKeys == { Blanks(l) \o k \o Blanks(r) : k \in CatalogKeys, l \in 0..MaxPad, r \in 0..MaxPad }

\* Inputs that are no key of the catalog in any casing
OtherStrings == {
  <<"n","o","n","-","e","x","i","s","t","e","n","t","-","m","o","d","e","l">>,
  <<"M","o","d","e","l">>,
  <<"s","o","n","n","e","t">>,
  <<"g","p","t">>,
  <<"G","P","T","-","5",".","2","x">>,
  <<"C","l","a","u","d","e">>,
  <<"RU_M","ru_o","ru_d","ru_e","ru_l","ru_soft">>,
  <<" ">>,
  <<"\t", "\n">> }

InputStrings ==
  {<<>>} \cup UNION { CaseVariants(k) : k \in CatalogKeys } \cup PaddedKeys \cup OtherStrings

ValidatorInputs == {Absent} \cup { Present(s) : s \in InputStrings }

(***************************************************************************)
(* The pure functions of model-config.ts, called once on a chosen input    *)
(***************************************************************************)
PureOff == [pc |-> "off", fn |-> "", arg |-> Absent, res |-> Return(<<>>, FALSE, {})]

CallGetValidatedModel ==
  /\ pure.pc = "ready"
  /\ pure' = [pure EXCEPT !.pc = "done", !.fn = "getValidatedModel",
                          !.res = getValidatedModel(pure.arg)]
  /\ UNCHANGED <<page, call>>

\* The strings given to isModelAllowed: every casing of every banned word,
\* bare and between blanks, and strings that contain or resemble one
PolicyOthers == {
  <<>>,
  <<"s","o","n","n","e","t">>,
  <<"s","o","n","a","r","-","p","r","o">>,
  <<"m","o","d","e","l","s">>,
  <<"m","y"," ","m","o","d","e","l">>,
  <<"S","o","n","a","r"," ","2">>,
  <<"m","o","d","e","l","\n","x">>,
  <<"\t","S","O","N","A","R","\n">>,
  <<"ja_mo","ja_de">> }

PolicyInputs ==
  { Blanks(l) \o v \o Blanks(r) :
      v \in UNION { CaseVariants(BANNED_MODEL_PATTERNS[k]) : k \in DOMAIN BANNED_MODEL_PATTERNS },
      l \in 0..MaxPad, r \in 0..MaxPad }
  \cup { AVAILABLE_MODELS[i].name : i \in DOMAIN AVAILABLE_MODELS }
  \cup PolicyOthers

CallIsModelAllowed ==
  /\ pure.pc = "ready"
  /\ pure' = [pure EXCEPT !.pc = "done", !.fn = "isModelAllowed",
                          !.res = Return(isModelAllowed(pure.arg.s), FALSE, {})]
  /\ UNCHANGED <<page, call>>

\* The value is the index of the entry returned, 0 for undefined
CallGetModelConfig ==
  /\ pure.pc = "ready"
  /\ pure' = [pure EXCEPT !.pc = "done", !.fn = "getModelConfig",
                          !.res = Return(getModelConfig(pure.arg.s), FALSE, {})]
  /\ UNCHANGED <<page, call>>

(***************************************************************************)
(* The page: the controls the selectors and in-page scripts of             *)
(* model-selection.ts and model-reasoning-toggle.ts look for               *)
(***************************************************************************)
MoreText == <<"M","o","r","e">>

SearchText == <<"S","e","a","r","c","h">>

\* A catalog in which the label of the second entry lies inside the label of
\* the first
Labels_nested ==
  [i \in DOMAIN AVAILABLE_MODELS |->
     IF i = 2 THEN <<"C","l","a","u","d","e"," ","S","o","n","n","e","t"," ","4">>
     ELSE AVAILABLE_MODELS[i].displayName]

\* The display labels of the catalog, in catalog order
Labels == [i \in DOMAIN AVAILABLE_MODELS |-> AVAILABLE_MODELS[i].displayName]

\* The text the model button shows at the start: no model button, or a label
InitialModelButtons == {<<>>, Labels[1], Labels[2], Labels[6], Labels[8]}

\* The option lists a page may offer once expanded: the whole catalog, or a
\* list without most models
OfferedLists == {DOMAIN AVAILABLE_MODELS, {9}}

InitialPages ==
  [modelBtn   : InitialModelButtons,
   more       : {"none", "before", "after"},
   listOpen   : {FALSE},
   offered    : OfferedLists,
   toggle     : {"absent", "off", "on"},
   responsive : BOOLEAN]

\* document.querySelectorAll('button') in document order: the texts
Buttons(pg) ==
  <<SearchText>>
  \o (IF pg.more = "before" THEN <<MoreText>> ELSE <<>>)
  \o (IF pg.modelBtn # <<>> THEN <<pg.modelBtn>> ELSE <<>>)
  \o (IF pg.more = "after" THEN <<MoreText>> ELSE <<>>)

\* The indices of the offered options in the order of the list
OfferedSeq(pg) ==
  SelectSeq([i \in DOMAIN AVAILABLE_MODELS |-> i], LAMBDA i : i \in pg.offered)

RECURSIVE Concat(_)
Concat(texts) == IF texts = <<>> THEN <<>> ELSE Head(texts) \o Concat(Tail(texts))

\* The text of the expanded list: div[role="menuitem"] options (SELECTORS.option)
MenuText(pg) ==
  LET offered == OfferedSeq(pg)
  IN  Concat([k \in DOMAIN offered |-> Labels[offered[k]]])

\* One element of the document: tag, role, textContent, and the catalog index
\* of the option it is or lies in (0: none)
Element(tag, role, text, option) == [tag |-> tag, role |-> role, text |-> text, option |-> option]

MenuElements(pg) ==
  LET offered == OfferedSeq(pg)
  IN  IF ~ pg.listOpen THEN <<>>
      ELSE <<Element("DIV", "menu", MenuText(pg), 0)>>
           \o Concat([k \in DOMAIN offered |->
                        << Element("DIV", "menuitem", Labels[offered[k]], offered[k]),
                           Element("SPAN", "", Labels[offered[k]], offered[k]) >>])

\* document.querySelectorAll('*') in document order: every ancestor precedes
\* its descendants, and its textContent holds theirs
Elements(pg) ==
  LET texts   == Buttons(pg)
      buttons == [k \in DOMAIN texts |-> Element("BUTTON", "", texts[k], 0)]
      all     == Concat(texts) \o (IF pg.listOpen THEN MenuText(pg) ELSE <<>>)
  IN  <<Element("HTML", "", all, 0), Element("BODY", "", all, 0)>> \o buttons \o MenuElements(pg)

\* The reasoning switch lives in the model dropdown
\* (model-reasoning-toggle.ts: "only works when the model dropdown is open")
ToggleInDom(pg) == pg.toggle # "absent" /\ pg.listOpen

\* button[aria-haspopup="menu"][data-state="closed"]: the model button while
\* its menu is closed
ModelButtonClosed(pg) == pg.modelBtn # <<>> /\ ~ pg.listOpen

\* The page after a click on an element
Click(pg, el) ==
  IF ~ pg.responsive THEN pg
  ELSE IF el.option # 0 THEN [pg EXCEPT !.modelBtn = Labels[el.option], !.listOpen = FALSE]
  ELSE IF el.tag = "BUTTON" /\ el.text \in {MoreText, pg.modelBtn} THEN [pg EXCEPT !.listOpen = TRUE]
  ELSE pg

\* The page after a click on the reasoning switch
ClickToggle(pg) ==
  IF ~ pg.responsive \/ ~ ToggleInDom(pg) THEN pg
  ELSE [pg EXCEPT !.toggle = IF @ = "on" THEN "off" ELSE "on"]

\* The page after the Escape key
PressEscape(pg) == IF pg.responsive THEN [pg EXCEPT !.listOpen = FALSE] ELSE pg

(***************************************************************************)
(* One invocation of an entry point of model-selection.ts                  *)
(***************************************************************************)
\* string | null
Null == [null |-> TRUE, text |-> <<>>]

Text(t) == [null |-> FALSE, text |-> t]

\* What the invocation gave its caller
NoOutcome == [kind |-> "none", str |-> <<>>, bool |-> FALSE, error |-> ""]

ReturnedString(v) == [kind |-> "returned", str |-> v, bool |-> FALSE, error |-> ""]

ReturnedBoolean(b) == [kind |-> "returned", str |-> <<>>, bool |-> b, error |-> ""]

Raised(e) == [kind |-> "raised", str |-> <<>>, bool |-> FALSE, error |-> e]

IdleCall ==
  [entry |-> "", arg |-> Absent, pc |-> "idle",
   validated |-> <<>>,      \* validatedModel
   target |-> <<>>,         \* modelDisplayName / modelConfig.displayName
   selector |-> <<>>,       \* modelConfig.selectorText of the second setModel
   cur |-> Null,            \* current / currentModel / currentText
   modelSelected |-> FALSE, \* modelSelected of the second setModel
   ret |-> NoOutcome,
   events |-> <<>>]         \* what happened, in order: see Event

\* kind "op":     a page operation was dispatched (val: which)
\* kind "throw":  a page primitive threw inside function fn
\* kind "log":    fn called logWarn (val "warn") or logError (val "error")
\* kind "return": fn returned val ("true", "false", "null", "text")
Event(kind, fn, val) == [kind |-> kind, fn |-> fn, val |-> val]

WithOp(c, op) == [c EXCEPT !.events = Append(@, Event("op", "", op))]

WithLog(c, fn, level) == [c EXCEPT !.events = Append(@, Event("log", fn, level))]

WithReturn(c, fn, val) == [c EXCEPT !.events = Append(@, Event("return", fn, val))]

\* A page primitive threw inside fn, whose catch block logs nothing
CaughtSilently(c, fn) == [c EXCEPT !.events = Append(@, Event("throw", fn, ""))]

\* A catch block that forgets its log call
Caught_withoutLog(c, fn, level) == CaughtSilently(c, fn)

\* A page primitive threw inside fn, whose catch block logs at this level
Caught(c, fn, level) == WithLog(CaughtSilently(c, fn), fn, level)

BoolText(b) == IF b THEN "true" ELSE "false"

\* The engine function fn returns b; its caller runs on to its own return
\* (selectModel lines 152-157, selectModelFinal lines 542-544)
EngineReturns(c, fn, b) ==
  LET c1 == WithReturn(c, fn, BoolText(b))
  IN  CASE c.entry = "selectModel" ->
             [(IF b THEN c1 ELSE WithLog(c1, "selectModel", "warn"))
                EXCEPT !.pc = "done", !.ret = ReturnedString(c.validated)]
        [] c.entry = "selectModelFinal" ->
             [c1 EXCEPT !.pc = "done", !.ret = ReturnedString(c.validated)]
        [] OTHER ->
             [c1 EXCEPT !.pc = "done", !.ret = ReturnedBoolean(b)]

\* selectModel / selectModelFinal going on to the engine although the
\* selection UI was reported unavailable
UnavailableReturns_entersEngine(c) ==
  [c EXCEPT !.pc = IF c.entry = "selectModel" THEN "s1_current" ELSE "s3_current"]

\* isModelSelectionAvailable returned false to selectModel / selectModelFinal
UnavailableReturns(c) ==
  [WithLog(c, c.entry, "warn") EXCEPT !.pc = "done", !.ret = ReturnedString(c.validated)]

(***************************************************************************)
(* The synchronous start of each entry point, up to its first await        *)
(***************************************************************************)
\* selectModel(page, model): lines 144-147
selectModel(c, model) ==
  LET validatedModel == getValidatedModel(model)
      c1 == [c EXCEPT !.entry = "selectModel", !.arg = model]
  IN  IF validatedModel.kind = "throw"
      THEN [c1 EXCEPT !.pc = "done", !.ret = Raised(validatedModel.error)]
      ELSE [c1 EXCEPT !.pc = "sm_available", !.validated = validatedModel.value,
                      !.target = validatedModel.value]

\* selectModelFinal(page, model): lines 533-537, and the argument of line 542
selectModelFinal(c, model) ==
  LET validatedModel == getValidatedModel(model)
      modelConfig == getModelConfig(validatedModel.value)
      c1 == [c EXCEPT !.entry = "selectModelFinal", !.arg = model]
  IN  IF validatedModel.kind = "throw"
      THEN [c1 EXCEPT !.pc = "done", !.ret = Raised(validatedModel.error)]
      ELSE [c1 EXCEPT !.pc = "sf_available", !.validated = validatedModel.value,
                      !.target = IF modelConfig # 0 /\ AVAILABLE_MODELS[modelConfig].selectorText # <<>>
                                 THEN AVAILABLE_MODELS[modelConfig].selectorText
                                 ELSE validatedModel.value]

\* setModel(page, modelDisplayName), first version: lines 89-94
setModel_1(c, modelDisplayName) ==
  [c EXCEPT !.entry = "setModel_1", !.arg = Present(modelDisplayName),
            !.pc = "s1_current", !.target = modelDisplayName]

\* setModel(page, modelName), second version: lines 372-385
setModel_2(c, modelName) ==
  LET modelConfig == getModelConfig(modelName)
      c1 == [c EXCEPT !.entry = "setModel_2", !.arg = Present(modelName)]
  IN  IF modelConfig = 0
      THEN EngineReturns(WithLog(c1, "setModel", "error"), "setModel", FALSE)
      ELSE [c1 EXCEPT !.pc = "s2_current", !.target = AVAILABLE_MODELS[modelConfig].displayName,
                      !.selector = AVAILABLE_MODELS[modelConfig].selectorText]

\* setModelFinal(page, modelDisplayName): lines 444-449
setModelFinal(c, modelDisplayName) ==
  [c EXCEPT !.entry = "setModelFinal", !.arg = Present(modelDisplayName),
            !.pc = "s3_current", !.target = modelDisplayName]

(***************************************************************************)
(* The in-page scripts                                                     *)
(***************************************************************************)
\* /(Claude|Gemini|Sonar|GPT|Grok|More)/ : lines 44, 431, 453
AvailablePattern == {
  <<"C","l","a","u","d","e">>, <<"G","e","m","i","n","i">>, <<"S","o","n","a","r">>,
  <<"G","P","T">>, <<"G","r","o","k">>, <<"M","o","r","e">> }

\* /(Claude|Gemini|Sonar|GPT|Grok|Kimi)/ : line 69
CurrentPattern == {
  <<"C","l","a","u","d","e">>, <<"G","e","m","i","n","i">>, <<"S","o","n","a","r">>,
  <<"G","P","T">>, <<"G","r","o","k">>, <<"K","i","m","i">> }

\* The trimmed textContent of the first element of texts that satisfies
\* hit, null when there is none
FirstText(texts, hit) ==
  LET first == find(hit)
  IN  IF first = 0 THEN Null ELSE Text(trim(texts[first]))

\* The loop of isModelSelectionAvailable (lines 41-48, 429-434)
AnyModelButton(pg) ==
  LET buttons == Buttons(pg)
  IN  \E k \in DOMAIN buttons :
         trim(buttons[k]) # <<>> /\ testAnyOf(AvailablePattern, trim(buttons[k]))

\* The script of getCurrentlySelectedModel, first version (lines 63-74)
CurrentModel_1(pg) ==
  LET buttons == Buttons(pg)
  IN  FirstText(buttons,
                [k \in DOMAIN buttons |->
                   /\ trim(buttons[k]) # <<>>
                   /\ testAnyOf(CurrentPattern, trim(buttons[k]))
                   /\ trim(buttons[k]) # MoreText])

\* The script of getCurrentlySelectedModel, second version (lines 203-212):
\* textContent of the model button, else its aria-label (none here), else null
CurrentModel_2(pg) ==
  IF ModelButtonClosed(pg) /\ trim(pg.modelBtn) # <<>> THEN Text(trim(pg.modelBtn)) ELSE Null

\* The first script of setModelFinal (lines 449-458)
CurrentText(pg) ==
  LET buttons == Buttons(pg)
  IN  FirstText(buttons,
                [k \in DOMAIN buttons |->
                   /\ trim(buttons[k]) # <<>>
                   /\ testAnyOf(AvailablePattern, trim(buttons[k]))])

\* The engine without its already-selected test
AlreadySelected_skipped(cur, name) == FALSE

\* current && current.includes(name) / currentText?.includes(name)
AlreadySelected(cur, name) == ~ cur.null /\ includes(cur.text, name)

\* buttons.some(btn => btn.textContent?.trim() === 'More') (lines 101-104)
HasMore(pg) ==
  LET buttons == Buttons(pg)
  IN  \E k \in DOMAIN buttons : trim(buttons[k]) = MoreText

\* The element a script clicks, 0 when it finds none: the index in Elements
\* The "More" button (lines 471-475)
MoreButton(pg) ==
  LET els == Elements(pg)
  IN  find([k \in DOMAIN els |-> els[k].tag = "BUTTON" /\ trim(els[k].text) = MoreText])

\* The first button whose text includes name (lines 113-123)
ButtonWith(pg, name) ==
  LET els == Elements(pg)
  IN  find([k \in DOMAIN els |->
              /\ els[k].tag = "BUTTON"
              /\ trim(els[k].text) # <<>>
              /\ includes(trim(els[k].text), name)])

\* The first [role="menuitem"] whose text includes targetText (lines 291-302)
OptionWith(pg, targetText) ==
  LET els == Elements(pg)
  IN  find([k \in DOMAIN els |->
              els[k].role = "menuitem" /\ includes(trim(els[k].text), targetText)])

\* el.closest('[role="menuitem"]') || el : the index of the element clicked
ClosestMenuItem(pg, k) ==
  LET els == Elements(pg)
  IN  IF els[k].option = 0 THEN k
      ELSE find([j \in DOMAIN els |-> els[j].role = "menuitem" /\ els[j].option = els[k].option])

\* The search of setModelFinal (lines 483-501): the first element of
\* querySelectorAll('*') that is no SCRIPT or STYLE and whose textContent
\* includes name, then its menuitem ancestor or itself; 0 when none
AnyElementWith(pg, name) ==
  LET els   == Elements(pg)
      first == find([k \in DOMAIN els |->
                       /\ includes(els[k].text, name)
                       /\ els[k].tag \notin {"SCRIPT", "STYLE"}
                       /\ includes(trim(els[k].text), name)])
  IN  IF first = 0 THEN 0 ELSE ClosestMenuItem(pg, first)

\* The name an operation on an element is recorded under
ClickOp(el) ==
  IF el.role = "menuitem" THEN "click:option"
  ELSE IF el.tag = "BUTTON" /\ el.text = MoreText THEN "click:More"
  ELSE IF el.tag = "BUTTON" THEN "click:button"
  ELSE "click:container"

\* modelDisplayName.includes('Claude') || modelDisplayName.includes(<reasoning, in Russian>)
HasReasoningFamily(name) ==
  \/ includes(name, <<"C","l","a","u","d","e">>)
  \/ includes(name, <<"RU_R","ru_a","ru_s","ru_s","ru_u","ru_zh","ru_d","ru_e","ru_n","ru_i","ru_e">>)

(***************************************************************************)
(* The steps of the final version: lines 426-545, and the reasoning toggle *)
(* Each step runs from one await to the next; the page primitive awaited   *)
(* either answers or throws (~ answers).                                   *)
(***************************************************************************)
\* isModelSelectionAvailable, final version (lines 426-439), awaited by
\* selectModelFinal (line 537)
isModelSelectionAvailable_3(p) ==
  /\ call[p].pc = "sf_available"
  /\ \E answers \in BOOLEAN :
       LET c  == call[p]
           ok == answers /\ AnyModelButton(page)
           c1 == WithReturn(IF ~ answers THEN CaughtSilently(c, "isModelSelectionAvailable") ELSE c,
                            "isModelSelectionAvailable", BoolText(ok))
       IN  call' = [call EXCEPT ![p] = IF ok THEN [c1 EXCEPT !.pc = "s3_current"]
                                       ELSE UnavailableReturns(c1)]
  /\ UNCHANGED <<page, pure>>

\* setModelFinal lines 449-469: read the current text, then AlreadyMatches,
\* or on to the "More" click, or the failure of lines 522-523
setModelFinal_current(p) ==
  /\ call[p].pc = "s3_current"
  /\ \E answers \in BOOLEAN :
       LET c  == call[p]
           c1 == [WithOp(c, "detect") EXCEPT !.cur = CurrentText(page)]
       IN  call' = [call EXCEPT ![p] =
             IF ~ answers THEN EngineReturns(Caught(c, "setModelFinal", "warn"), "setModelFinal", FALSE)
             ELSE IF AlreadySelected(c1.cur, c.target) THEN EngineReturns(c1, "setModelFinal", TRUE)
             ELSE IF c1.cur = Text(MoreText) THEN [c1 EXCEPT !.pc = "s3_clickMore"]
             ELSE EngineReturns(WithLog(c1, "setModelFinal", "warn"), "setModelFinal", FALSE)]
  /\ UNCHANGED <<page, pure>>

\* The "More" click followed at once by the search, without the settle delay
setModelFinal_clickMore_noSettle(p) ==
  /\ call[p].pc = "s3_clickMore"
  /\ LET c == call[p]
         k == MoreButton(page)
     IN  /\ call' = [call EXCEPT ![p] =
               [(IF k = 0 THEN c ELSE WithOp(c, "click:More")) EXCEPT !.pc = "s3_search"]]
         /\ page' = IF k = 0 THEN page ELSE Click(page, Elements(page)[k])
  /\ UNCHANGED pure

\* lines 471-475: click the "More" button if there is one
setModelFinal_clickMore(p) ==
  /\ call[p].pc = "s3_clickMore"
  /\ \E answers \in BOOLEAN :
       LET c == call[p]
           k == MoreButton(page)
       IN  IF ~ answers
           THEN /\ call' = [call EXCEPT ![p] =
                      EngineReturns(Caught(c, "setModelFinal", "warn"), "setModelFinal", FALSE)]
                /\ page' = page
           ELSE /\ call' = [call EXCEPT ![p] =
                      [(IF k = 0 THEN c ELSE WithOp(c, "click:More")) EXCEPT !.pc = "s3_settleMore"]]
                /\ page' = IF k = 0 THEN page ELSE Click(page, Elements(page)[k])
  /\ UNCHANGED pure

\* A settle delay whose promise never resolves
setModelFinal_settleMore_neverResolves(p) ==
  /\ call[p].pc = "s3_settleMore"
  /\ UNCHANGED vars

\* line 476: the settle delay after the "More" click
setModelFinal_settleMore(p) ==
  /\ call[p].pc = "s3_settleMore"
  /\ \E answers \in BOOLEAN :
       LET c == call[p]
       IN  call' = [call EXCEPT ![p] =
             IF ~ answers THEN EngineReturns(Caught(c, "setModelFinal", "warn"), "setModelFinal", FALSE)
             ELSE [WithOp(c, "settle") EXCEPT !.pc = "s3_search"]]
  /\ UNCHANGED <<page, pure>>

\* lines 479-505 and 522-523: search every element and click the first hit
setModelFinal_search(p) ==
  /\ call[p].pc = "s3_search"
  /\ \E answers \in BOOLEAN :
       LET c  == call[p]
           k  == AnyElementWith(page, c.target)
           c1 == WithOp(c, "search")
       IN  IF ~ answers
           THEN /\ call' = [call EXCEPT ![p] =
                      EngineReturns(Caught(c, "setModelFinal", "warn"), "setModelFinal", FALSE)]
                /\ page' = page
           ELSE IF k = 0
           THEN /\ call' = [call EXCEPT ![p] =
                      EngineReturns(WithLog(c1, "setModelFinal", "warn"), "setModelFinal", FALSE)]
                /\ page' = page
           ELSE /\ call' = [call EXCEPT ![p] =
                      [WithOp(c1, ClickOp(Elements(page)[k])) EXCEPT !.pc = "s3_settle"]]
                /\ page' = Click(page, Elements(page)[k])
  /\ UNCHANGED pure

\* lines 507-518: the settle delay after the option click, then the toggle
\* for the families that have one
setModelFinal_settle(p) ==
  /\ call[p].pc = "s3_settle"
  /\ \E answers \in BOOLEAN :
       LET c  == call[p]
           c1 == WithOp(c, "settle")
       IN  call' = [call EXCEPT ![p] =
             IF ~ answers THEN EngineReturns(Caught(c, "setModelFinal", "warn"), "setModelFinal", FALSE)
             ELSE IF HasReasoningFamily(c.target) THEN [c1 EXCEPT !.pc = "rt_available"]
             ELSE EngineReturns(c1, "setModelFinal", TRUE)]
  /\ UNCHANGED <<page, pure>>

\* enableReasoningMode returns b: to its caller when called directly, else to
\* setModelFinal, which ignores the value and returns true (lines 514-518)
ToggleReturns(c, b) ==
  LET c1 == WithReturn(c, "enableReasoningMode", BoolText(b))
  IN  IF c.entry = "enableReasoningMode"
      THEN [c1 EXCEPT !.pc = "done", !.ret = ReturnedBoolean(b)]
      ELSE EngineReturns(c1, "setModelFinal", TRUE)

\* isReasoningToggleAvailable (model-reasoning-toggle.ts lines 15-23), called
\* directly or awaited at line 512
isReasoningToggleAvailable(p) ==
  /\ call[p].pc = "rt_available"
  /\ \E answers \in BOOLEAN :
       LET c  == call[p]
           ok == answers /\ ToggleInDom(page)
           c1 == WithReturn(IF ~ answers THEN Caught(c, "isReasoningToggleAvailable", "warn")
                                    ELSE WithOp(c, "query:toggle"),
                            "isReasoningToggleAvailable", BoolText(ok))
       IN  call' = [call EXCEPT ![p] =
             IF c.entry = "isReasoningToggleAvailable"
             THEN [c1 EXCEPT !.pc = "done", !.ret = ReturnedBoolean(ok)]
             ELSE IF ok THEN [c1 EXCEPT !.pc = "rt_read"]
             ELSE EngineReturns(c1, "setModelFinal", TRUE)]
  /\ UNCHANGED <<page, pure>>

\* enableReasoningMode going on to the click whatever it read
enableReasoningMode_read_alwaysClicks(p) ==
  /\ call[p].pc = "rt_read"
  /\ LET c         == call[p]
         isEnabled == ToggleInDom(page) /\ page.toggle = "on"
     IN  call' = [call EXCEPT ![p] =
           [WithOp(c, IF isEnabled THEN "read:on" ELSE "read:off") EXCEPT !.pc = "rt_click"]]
  /\ UNCHANGED <<page, pure>>

\* enableReasoningMode lines 34-42: read aria-checked
enableReasoningMode_read(p) ==
  /\ call[p].pc = "rt_read"
  /\ \E answers \in BOOLEAN :
       LET c         == call[p]
           isEnabled == ToggleInDom(page) /\ page.toggle = "on"
           c1        == WithOp(c, IF isEnabled THEN "read:on" ELSE "read:off")
       IN  call' = [call EXCEPT ![p] =
             IF ~ answers THEN ToggleReturns(Caught(c, "enableReasoningMode", "warn"), FALSE)
             ELSE IF isEnabled THEN ToggleReturns(c1, TRUE)
             ELSE [c1 EXCEPT !.pc = "rt_click"]]
  /\ UNCHANGED <<page, pure>>

\* enableReasoningMode with a click that does nothing, instead of throwing,
\* when no element matches the selector
enableReasoningMode_click_lenient(p) ==
  /\ call[p].pc = "rt_click"
  /\ LET c == call[p]
     IN  /\ call' = [call EXCEPT ![p] =
               [(IF ToggleInDom(page) THEN WithOp(c, "click:toggle") ELSE c) EXCEPT !.pc = "rt_settle"]]
         /\ page' = ClickToggle(page)
  /\ UNCHANGED pure

\* enableReasoningMode line 45: page.click on the switch, which throws when
\* no element matches the selector
enableReasoningMode_click(p) ==
  /\ call[p].pc = "rt_click"
  /\ \E answers \in BOOLEAN :
       LET c == call[p]
       IN  IF ~ answers \/ ~ ToggleInDom(page)
           THEN /\ call' = [call EXCEPT ![p] =
                      ToggleReturns(Caught(c, "enableReasoningMode", "warn"), FALSE)]
                /\ page' = page
           ELSE /\ call' = [call EXCEPT ![p] = [WithOp(c, "click:toggle") EXCEPT !.pc = "rt_settle"]]
                /\ page' = ClickToggle(page)
  /\ UNCHANGED pure

\* enableReasoningMode lines 49-51: the settle delay after the toggle click
enableReasoningMode_settle(p) ==
  /\ call[p].pc = "rt_settle"
  /\ \E answers \in BOOLEAN :
       LET c == call[p]
       IN  call' = [call EXCEPT ![p] =
             IF ~ answers THEN ToggleReturns(Caught(c, "enableReasoningMode", "warn"), FALSE)
             ELSE ToggleReturns(WithOp(c, "settle"), TRUE)]
  /\ UNCHANGED <<page, pure>>

(***************************************************************************)
(* The steps of the first version: lines 36-158                            *)
(***************************************************************************)
\* isModelSelectionAvailable, first version (lines 36-56), awaited by
\* selectModel (line 147)
isModelSelectionAvailable_1(p) ==
  /\ call[p].pc = "sm_available"
  /\ \E answers \in BOOLEAN :
       LET c  == call[p]
           ok == answers /\ AnyModelButton(page)
           c1 == WithReturn(IF ~ answers THEN Caught(c, "isModelSelectionAvailable", "warn")
                            ELSE IF ok THEN c
                            ELSE WithLog(c, "isModelSelectionAvailable", "warn"),
                            "isModelSelectionAvailable", BoolText(ok))
       IN  call' = [call EXCEPT ![p] = IF ok THEN [c1 EXCEPT !.pc = "s1_current"]
                                       ELSE UnavailableReturns(c1)]
  /\ UNCHANGED <<page, pure>>

\* getCurrentlySelectedModel, first version (lines 61-84), awaited at line 94;
\* then the test of lines 95-98
setModel_1_current(p) ==
  /\ call[p].pc = "s1_current"
  /\ \E answers \in BOOLEAN :
       LET c   == call[p]
           cur == IF ~ answers THEN Null ELSE CurrentModel_1(page)
           c1  == [WithReturn(IF ~ answers THEN Caught(c, "getCurrentlySelectedModel", "warn")
                                      ELSE WithOp(c, "detect"),
                              "getCurrentlySelectedModel", IF cur.null THEN "null" ELSE "text")
                     EXCEPT !.cur = cur]
       IN  call' = [call EXCEPT ![p] =
             IF AlreadySelected(cur, c.target) THEN EngineReturns(c1, "setModel", TRUE)
             ELSE [c1 EXCEPT !.pc = "s1_hasMore"]]
  /\ UNCHANGED <<page, pure>>

\* lines 101-106: is there a "More" button
setModel_1_hasMore(p) ==
  /\ call[p].pc = "s1_hasMore"
  /\ \E answers \in BOOLEAN :
       LET c == call[p]
       IN  call' = [call EXCEPT ![p] =
             IF ~ answers THEN EngineReturns(Caught(c, "setModel", "warn"), "setModel", FALSE)
             ELSE [WithOp(c, "query:More") EXCEPT
                     !.pc = IF HasMore(page) THEN "s1_clickMore" ELSE "s1_find"]]
  /\ UNCHANGED <<page, pure>>

\* line 108: page.click on the "More" button, which throws when the selector
\* matches nothing
setModel_1_clickMore(p) ==
  /\ call[p].pc = "s1_clickMore"
  /\ \E answers \in BOOLEAN :
       LET c == call[p]
           k == MoreButton(page)
       IN  IF ~ answers \/ k = 0
           THEN /\ call' = [call EXCEPT ![p] =
                      EngineReturns(Caught(c, "setModel", "warn"), "setModel", FALSE)]
                /\ page' = page
           ELSE /\ call' = [call EXCEPT ![p] = [WithOp(c, "click:More") EXCEPT !.pc = "s1_settleMore"]]
                /\ page' = Click(page, Elements(page)[k])
  /\ UNCHANGED pure

\* line 109: the settle delay after the "More" click
setModel_1_settleMore(p) ==
  /\ call[p].pc = "s1_settleMore"
  /\ \E answers \in BOOLEAN :
       LET c == call[p]
       IN  call' = [call EXCEPT ![p] =
             IF ~ answers THEN EngineReturns(Caught(c, "setModel", "warn"), "setModel", FALSE)
             ELSE [WithOp(c, "settle") EXCEPT !.pc = "s1_find"]]
  /\ UNCHANGED <<page, pure>>

\* lines 113-125 and 131-132: click the first button whose text includes the name
setModel_1_find(p) ==
  /\ call[p].pc = "s1_find"
  /\ \E answers \in BOOLEAN :
       LET c  == call[p]
           k  == ButtonWith(page, c.target)
           c1 == WithOp(c, "search")
       IN  IF ~ answers
           THEN /\ call' = [call EXCEPT ![p] =
                      EngineReturns(Caught(c, "setModel", "warn"), "setModel", FALSE)]
                /\ page' = page
           ELSE IF k = 0
           THEN /\ call' = [call EXCEPT ![p] =
                      EngineReturns(WithLog(c1, "setModel", "warn"), "setModel", FALSE)]
                /\ page' = page
           ELSE /\ call' = [call EXCEPT ![p] =
                      [WithOp(c1, ClickOp(Elements(page)[k])) EXCEPT !.pc = "s1_settle"]]
                /\ page' = Click(page, Elements(page)[k])
  /\ UNCHANGED pure

\* lines 127-128: the settle delay after the click
setModel_1_settle(p) ==
  /\ call[p].pc = "s1_settle"
  /\ \E answers \in BOOLEAN :
       LET c == call[p]
       IN  call' = [call EXCEPT ![p] =
             IF ~ answers THEN EngineReturns(Caught(c, "setModel", "warn"), "setModel", FALSE)
             ELSE EngineReturns(WithOp(c, "settle"), "setModel", TRUE)]
  /\ UNCHANGED <<page, pure>>

(***************************************************************************)
(* The steps of the second version: lines 183-412                          *)
(***************************************************************************)
\* getCurrentlySelectedModel, second version (lines 200-221), awaited at line
\* 385; then the test of lines 387-390
setModel_2_current(p) ==
  /\ call[p].pc = "s2_current"
  /\ \E answers \in BOOLEAN :
       LET c   == call[p]
           cur == IF ~ answers THEN Null ELSE CurrentModel_2(page)
           c1  == [WithReturn(IF ~ answers THEN Caught(c, "getCurrentlySelectedModel", "warn")
                                      ELSE WithOp(c, "detect"),
                              "getCurrentlySelectedModel", IF cur.null THEN "null" ELSE "text")
                     EXCEPT !.cur = cur]
       IN  call' = [call EXCEPT ![p] =
             IF AlreadySelected(cur, c.target) THEN EngineReturns(c1, "setModel", TRUE)
             ELSE [c1 EXCEPT !.pc = "s2_openWait"]]
  /\ UNCHANGED <<page, pure>>

\* openModelDropdown returned false: lines 243-247, then 394-397
OpenFailed(c) ==
  EngineReturns(WithLog(WithReturn(Caught(c, "openModelDropdown", "error"),
                                   "openModelDropdown", "false"),
                        "setModel", "error"),
                "setModel", FALSE)

\* openModelDropdown line 233: wait for the closed model button
openModelDropdown_waitButton(p) ==
  /\ call[p].pc = "s2_openWait"
  /\ \E answers \in BOOLEAN :
       LET c == call[p]
       IN  call' = [call EXCEPT ![p] =
             IF ~ answers \/ ~ ModelButtonClosed(page) THEN OpenFailed(c)
             ELSE [WithOp(c, "wait") EXCEPT !.pc = "s2_openClick"]]
  /\ UNCHANGED <<page, pure>>

\* The model button among the elements
ModelButton(pg) ==
  LET els == Elements(pg)
  IN  find([k \in DOMAIN els |-> els[k].tag = "BUTTON" /\ els[k].text = pg.modelBtn])

\* openModelDropdown line 236: click the model button
openModelDropdown_click(p) ==
  /\ call[p].pc = "s2_openClick"
  /\ \E answers \in BOOLEAN :
       LET c == call[p]
       IN  IF ~ answers \/ ~ ModelButtonClosed(page)
           THEN /\ call' = [call EXCEPT ![p] = OpenFailed(c)]
                /\ page' = page
           ELSE /\ call' = [call EXCEPT ![p] = [WithOp(c, "click:modelButton") EXCEPT !.pc = "s2_openShown"]]
                /\ page' = Click(page, Elements(page)[ModelButton(page)])
  /\ UNCHANGED pure

\* openModelDropdown lines 239-242: wait for the dropdown to show
openModelDropdown_waitDropdown(p) ==
  /\ call[p].pc = "s2_openShown"
  /\ \E answers \in BOOLEAN :
       LET c == call[p]
       IN  call' = [call EXCEPT ![p] =
             IF ~ answers \/ ~ page.listOpen THEN OpenFailed(c)
             ELSE [WithReturn(WithOp(c, "wait"), "openModelDropdown", "true") EXCEPT !.pc = "s2_selectWait"]]
  /\ UNCHANGED <<page, pure>>

\* selectModelFromDropdown returned b (lines 310-324), then line 403
SelectReturned(c, b, threw) ==
  [WithReturn(IF threw \/ ~ b THEN (IF threw THEN Caught(c, "selectModelFromDropdown", "error")
                                             ELSE WithLog(c, "selectModelFromDropdown", "error"))
                              ELSE c,
              "selectModelFromDropdown", BoolText(b))
     EXCEPT !.modelSelected = b, !.pc = "s2_closeEscape"]

\* selectModelFromDropdown line 286: wait for the dropdown
selectModelFromDropdown_wait(p) ==
  /\ call[p].pc = "s2_selectWait"
  /\ \E answers \in BOOLEAN :
       LET c == call[p]
       IN  call' = [call EXCEPT ![p] =
             IF ~ answers \/ ~ page.listOpen THEN SelectReturned(c, FALSE, TRUE)
             ELSE [WithOp(c, "wait") EXCEPT !.pc = "s2_selectClick"]]
  /\ UNCHANGED <<page, pure>>

\* selectModelFromDropdown lines 289-313: click the first option with the text
selectModelFromDropdown_click(p) ==
  /\ call[p].pc = "s2_selectClick"
  /\ \E answers \in BOOLEAN :
       LET c  == call[p]
           k  == OptionWith(page, c.selector)
           c1 == WithOp(c, "search")
       IN  IF ~ answers
           THEN /\ call' = [call EXCEPT ![p] = SelectReturned(c, FALSE, TRUE)]
                /\ page' = page
           ELSE IF k = 0
           THEN /\ call' = [call EXCEPT ![p] = SelectReturned(c1, FALSE, FALSE)]
                /\ page' = page
           ELSE /\ call' = [call EXCEPT ![p] =
                      [WithOp(c1, ClickOp(Elements(page)[k])) EXCEPT !.pc = "s2_selectSettle"]]
                /\ page' = Click(page, Elements(page)[k])
  /\ UNCHANGED pure

\* selectModelFromDropdown lines 316-319: page.waitForTimeout(500)
selectModelFromDropdown_settle(p) ==
  /\ call[p].pc = "s2_selectSettle"
  /\ \E answers \in BOOLEAN :
       LET c == call[p]
       IN  call' = [call EXCEPT ![p] =
             IF ~ answers THEN SelectReturned(c, FALSE, TRUE)
             ELSE SelectReturned(WithOp(c, "settle"), TRUE, FALSE)]
  /\ UNCHANGED <<page, pure>>

\* closeModelDropdown line 259: press Escape; a throw is caught at lines
\* 267-271 and setModel returns modelSelected (line 405)
closeModelDropdown_escape(p) ==
  /\ call[p].pc = "s2_closeEscape"
  /\ \E answers \in BOOLEAN :
       LET c == call[p]
       IN  IF ~ answers
           THEN /\ call' = [call EXCEPT ![p] =
                      EngineReturns(WithReturn(Caught(c, "closeModelDropdown", "warn"),
                                               "closeModelDropdown", "false"),
                                    "setModel", c.modelSelected)]
                /\ page' = page
           ELSE /\ call' = [call EXCEPT ![p] = [WithOp(c, "key:Escape") EXCEPT !.pc = "s2_closeHidden"]]
                /\ page' = PressEscape(page)
  /\ UNCHANGED pure

\* closeModelDropdown lines 262-266: wait for the dropdown to hide, a timeout
\* being swallowed; then setModel returns modelSelected (line 405)
closeModelDropdown_waitHidden(p) ==
  /\ call[p].pc = "s2_closeHidden"
  /\ \E answers \in BOOLEAN :
       LET c == call[p]
       IN  call' = [call EXCEPT ![p] =
             EngineReturns(WithReturn(IF ~ answers \/ page.listOpen THEN c ELSE WithOp(c, "wait"),
                                      "closeModelDropdown", "true"),
                           "setModel", c.modelSelected)]
  /\ UNCHANGED <<page, pure>>

(***************************************************************************)
(* Invocations.  The caller issues one invocation at a time; after an      *)
(* invocation in which the engine reported success it may repeat it, on    *)
(* the page the first one left.                                            *)
(***************************************************************************)
Procs == {1, 2}

\* The model strings given to selectModel and selectModelFinal
SelectInputs == {
  Absent,
  Present(AVAILABLE_MODELS[2].name),
  Present(AVAILABLE_MODELS[6].displayName),
  Present(AVAILABLE_MODELS[9].name),
  Present(<<"n","o","n","-","e","x","i","s","t","e","n","t","-","m","o","d","e","l">>) }

\* The display labels given to setModel (first version) and setModelFinal
SetModelTargets == {Labels[1], Labels[2], Labels[6], Labels[8]}

\* The model names given to setModel (second version)
SetModelNames == {
  AVAILABLE_MODELS[2].name, Labels[1],
  <<"n","o","n","-","e","x","i","s","t","e","n","t","-","m","o","d","e","l">> }

\* The engine function of the invocation returned true
EngineSucceeded(c) ==
  \E k \in DOMAIN c.events :
     c.events[k] \in {Event("return", "setModel", "true"), Event("return", "setModelFinal", "true")}

MayInvoke(p, entry, arg) ==
  /\ pure.pc = "off"
  /\ call[p].pc = "idle"
  /\ \A q \in Procs : q < p =>
        /\ call[q].pc = "done" /\ call[q].entry = entry /\ call[q].arg = arg
        /\ EngineSucceeded(call[q])

Invoke_selectModel(p) ==
  /\ \E model \in SelectInputs :
       /\ MayInvoke(p, "selectModel", model)
       /\ call' = [call EXCEPT ![p] = selectModel(IdleCall, model)]
  /\ UNCHANGED <<page, pure>>

Invoke_selectModelFinal(p) ==
  /\ \E model \in SelectInputs :
       /\ MayInvoke(p, "selectModelFinal", model)
       /\ call' = [call EXCEPT ![p] = selectModelFinal(IdleCall, model)]
  /\ UNCHANGED <<page, pure>>

Invoke_setModel_1(p) ==
  /\ \E name \in SetModelTargets :
       /\ MayInvoke(p, "setModel_1", Present(name))
       /\ call' = [call EXCEPT ![p] = setModel_1(IdleCall, name)]
  /\ UNCHANGED <<page, pure>>

Invoke_setModel_2(p) ==
  /\ \E name \in SetModelNames :
       /\ MayInvoke(p, "setModel_2", Present(name))
       /\ call' = [call EXCEPT ![p] = setModel_2(IdleCall, name)]
  /\ UNCHANGED <<page, pure>>

Invoke_setModelFinal(p) ==
  /\ \E name \in SetModelTargets :
       /\ MayInvoke(p, "setModelFinal", Present(name))
       /\ call' = [call EXCEPT ![p] = setModelFinal(IdleCall, name)]
  /\ UNCHANGED <<page, pure>>

\* The direct callers of model-reasoning-toggle.ts: one call after the other
MayInvokeToggle(p) ==
  /\ pure.pc = "off"
  /\ call[p].pc = "idle"
  /\ \A q \in Procs : q < p =>
        call[q].pc = "done" /\ call[q].entry \in {"isReasoningToggleAvailable", "enableReasoningMode"}

Invoke_isReasoningToggleAvailable(p) ==
  /\ MayInvokeToggle(p)
  /\ call' = [call EXCEPT ![p] =
        [IdleCall EXCEPT !.entry = "isReasoningToggleAvailable", !.pc = "rt_available"]]
  /\ UNCHANGED <<page, pure>>

Invoke_enableReasoningMode(p) ==
  /\ MayInvokeToggle(p)
  /\ call' = [call EXCEPT ![p] =
        [IdleCall EXCEPT !.entry = "enableReasoningMode", !.pc = "rt_read"]]
  /\ UNCHANGED <<page, pure>>

(***************************************************************************)
(* Specifications                                                          *)
(***************************************************************************)
NoPage ==
  [modelBtn |-> <<>>, more |-> "none", listOpen |-> FALSE, offered |-> {},
   toggle |-> "absent", responsive |-> FALSE]

\* The selection engine on a page
Init ==
  /\ pure = PureOff
  /\ page \in InitialPages
  /\ call = [p \in Procs |-> IdleCall]

Next ==
  \E p \in Procs :
    \/ Invoke_selectModel(p)
    \/ Invoke_selectModelFinal(p)
    \/ Invoke_setModel_1(p)
    \/ Invoke_setModel_2(p)
    \/ Invoke_setModelFinal(p)
    \/ isModelSelectionAvailable_1(p)
    \/ setModel_1_current(p)
    \/ setModel_1_hasMore(p)
    \/ setModel_1_clickMore(p)
    \/ setModel_1_settleMore(p)
    \/ setModel_1_find(p)
    \/ setModel_1_settle(p)
    \/ setModel_2_current(p)
    \/ openModelDropdown_waitButton(p)
    \/ openModelDropdown_click(p)
    \/ openModelDropdown_waitDropdown(p)
    \/ selectModelFromDropdown_wait(p)
    \/ selectModelFromDropdown_click(p)
    \/ selectModelFromDropdown_settle(p)
    \/ closeModelDropdown_escape(p)
    \/ closeModelDropdown_waitHidden(p)
    \/ isModelSelectionAvailable_3(p)
    \/ setModelFinal_current(p)
    \/ setModelFinal_clickMore(p)
    \/ setModelFinal_settleMore(p)
    \/ setModelFinal_search(p)
    \/ setModelFinal_settle(p)
    \/ isReasoningToggleAvailable(p)
    \/ enableReasoningMode_read(p)
    \/ enableReasoningMode_click(p)
    \/ enableReasoningMode_settle(p)

Spec == Init /\ [][Next]_vars

\* The steps of the invocations under way: every page primitive awaited
\* answers, throws or times out (TIMEOUT, MODEL_SELECTION_TIMEOUT, the
\* setTimeout delays), after which the function runs on to its next await
Step ==
  \E p \in Procs :
    \/ isModelSelectionAvailable_1(p)
    \/ setModel_1_current(p)
    \/ setModel_1_hasMore(p)
    \/ setModel_1_clickMore(p)
    \/ setModel_1_settleMore(p)
    \/ setModel_1_find(p)
    \/ setModel_1_settle(p)
    \/ setModel_2_current(p)
    \/ openModelDropdown_waitButton(p)
    \/ openModelDropdown_click(p)
    \/ openModelDropdown_waitDropdown(p)
    \/ selectModelFromDropdown_wait(p)
    \/ selectModelFromDropdown_click(p)
    \/ selectModelFromDropdown_settle(p)
    \/ closeModelDropdown_escape(p)
    \/ closeModelDropdown_waitHidden(p)
    \/ isModelSelectionAvailable_3(p)
    \/ setModelFinal_current(p)
    \/ setModelFinal_clickMore(p)
    \/ setModelFinal_settleMore(p)
    \/ setModelFinal_search(p)
    \/ setModelFinal_settle(p)
    \/ isReasoningToggleAvailable(p)
    \/ enableReasoningMode_read(p)
    \/ enableReasoningMode_click(p)
    \/ enableReasoningMode_settle(p)

\* The selection engine on a page whose primitives all come back
SpecLive == Spec /\ WF_vars(Step)

\* The validator of model-config.ts on one input
InitValidator ==
  /\ pure \in { [PureOff EXCEPT !.pc = "ready", !.arg = a] : a \in ValidatorInputs }
  /\ page = NoPage
  /\ call = [p \in Procs |-> IdleCall]

NextValidator == CallGetValidatedModel

SpecValidator == InitValidator /\ [][NextValidator]_vars

\* The reasoning toggle called directly, on a page with its model list open
\* or closed
TogglePages ==
  [modelBtn   : {Labels[1], Labels[8]},
   more       : {"none"},
   listOpen   : BOOLEAN,
   offered    : {DOMAIN AVAILABLE_MODELS},
   toggle     : {"absent", "off", "on"},
   responsive : BOOLEAN]

InitToggle ==
  /\ pure = PureOff
  /\ page \in TogglePages
  /\ call = [p \in Procs |-> IdleCall]

NextToggle ==
  \E p \in Procs :
    \/ Invoke_isReasoningToggleAvailable(p)
    \/ Invoke_enableReasoningMode(p)
    \/ isReasoningToggleAvailable(p)
    \/ enableReasoningMode_read(p)
    \/ enableReasoningMode_click(p)
    \/ enableReasoningMode_settle(p)

SpecToggle == InitToggle /\ [][NextToggle]_vars

\* The policy of model-config.ts on one input
InitPolicy ==
  /\ pure \in { [PureOff EXCEPT !.pc = "ready", !.arg = Present(s)] : s \in PolicyInputs }
  /\ page = NoPage
  /\ call = [p \in Procs |-> IdleCall]

NextPolicy == CallIsModelAllowed

SpecPolicy == InitPolicy /\ [][NextPolicy]_vars

\* The resolver of model-config.ts on one input
InitResolver ==
  /\ pure \in { [PureOff EXCEPT !.pc = "ready", !.arg = Present(s)] : s \in InputStrings }
  /\ page = NoPage
  /\ call = [p \in Procs |-> IdleCall]

NextResolver == CallGetModelConfig

SpecResolver == InitResolver /\ [][NextResolver]_vars

\* Two callers of setModelFinal on one page with the same target; neither
\* waits for the other, so the steps of the two invocations interleave at
\* their awaits (page.evaluate, setTimeout): lines 444-528 hold no lock
Invoke_setModelFinal_overlapping(p) ==
  /\ pure.pc = "off"
  /\ call[p].pc = "idle"
  /\ \E name \in SetModelTargets :
       /\ \A q \in Procs : call[q].pc # "idle" => call[q].target = name
       /\ call' = [call EXCEPT ![p] = setModelFinal(IdleCall, name)]
  /\ UNCHANGED <<page, pure>>

NextOverlap ==
  \E p \in Procs :
    \/ Invoke_setModelFinal_overlapping(p)
    \/ setModelFinal_current(p)
    \/ setModelFinal_clickMore(p)
    \/ setModelFinal_settleMore(p)
    \/ setModelFinal_search(p)
    \/ setModelFinal_settle(p)
    \/ isReasoningToggleAvailable(p)
    \/ enableReasoningMode_read(p)
    \/ enableReasoningMode_click(p)
    \/ enableReasoningMode_settle(p)

\* setModelFinal called twice on a page, the calls overlapping or not
SpecOverlap == Init /\ [][NextOverlap]_vars

(***************************************************************************)
(* Readings of an invocation's history                                     *)
(***************************************************************************)
\* The operations that change the page or wait for it to settle
Mutations == {"click:More", "click:option", "click:button", "click:container",
              "click:modelButton", "click:toggle", "key:Escape", "settle"}

Clicks == {"click:More", "click:option", "click:button", "click:container",
           "click:modelButton", "click:toggle"}

Dispatched(c, ops) ==
  \E k \in DOMAIN c.events : c.events[k].kind = "op" /\ c.events[k].val \in ops

Happened(c, e) == \E k \in DOMAIN c.events : c.events[k] = e

CatalogNames == { AVAILABLE_MODELS[i].name : i \in DOMAIN AVAILABLE_MODELS }

DefaultName == <<"c","l","a","u","d","e","-","s","o","n","n","e","t","-","4",".","6">>

(***************************************************************************)
(* Claims                                                                  *)
(***************************************************************************)

\* C1: selectModel and selectModelFinal return exactly getValidatedModel(input),
\* a non-empty name of a catalog entry, for every input and every page and
\* page behaviour.
C1_ReturnsValidatedName ==
  \A p \in Procs :
    (call[p].pc = "done" /\ call[p].entry \in {"selectModel", "selectModelFinal"}) =>
      /\ call[p].ret.kind = "returned"
      /\ call[p].ret.str # <<>>
      /\ call[p].ret.str \in CatalogNames
      /\ getValidatedModel(call[p].arg).kind = "return"
      /\ call[p].ret.str = getValidatedModel(call[p].arg).value

\* C2: getValidatedModel is total: for every input it returns, without
\* raising, the name of a catalog entry that isModelAllowed accepts.
C2_ValidatorTotal ==
  (pure.pc = "done" /\ pure.fn = "getValidatedModel") =>
    /\ pure.res.kind = "return"
    /\ pure.res.value \in CatalogNames
    /\ isModelAllowed(pure.res.value)

\* The functions of the UI-interaction path that C3 names
GuardedFunctions == {"isModelSelectionAvailable", "getCurrentlySelectedModel", "openModelDropdown",
                     "selectModelFromDropdown", "setModel", "setModelFinal"}

\* After the throw at position k of c's history, the function logs a warning
\* or an error and then returns false or null
LoggedThenFalse(c, k) ==
  \E i, j \in DOMAIN c.events :
     /\ k < i /\ i < j
     /\ c.events[i].kind = "log" /\ c.events[i].fn = c.events[k].fn
     /\ c.events[i].val \in {"warn", "error"}
     /\ c.events[j].kind = "return" /\ c.events[j].fn = c.events[k].fn
     /\ c.events[j].val \in {"false", "null"}

\* After the throw at position k of c's history, the function returns false
\* or null, and nothing comes between
StraightFalse(c, k) ==
  /\ k + 1 \in DOMAIN c.events
  /\ c.events[k + 1].kind = "return" /\ c.events[k + 1].fn = c.events[k].fn
  /\ c.events[k + 1].val \in {"false", "null"}

\* C3 as stated: a page primitive that throws inside isModelSelectionAvailable,
\* getCurrentlySelectedModel, openModelDropdown, selectModelFromDropdown,
\* setModel or setModelFinal never reaches the caller: the function logs and
\* then returns false or null.
C3_CaughtLoggedFalse ==
  \A p \in Procs :
    \A k \in DOMAIN call[p].events :
      (call[p].events[k].kind = "throw" /\ call[p].events[k].fn \in GuardedFunctions) =>
        /\ call[p].ret.kind # "raised"
        /\ LoggedThenFalse(call[p], k)

\* C3 as amended: the same, except that the final version of
\* isModelSelectionAvailable (lines 426-439) returns false without logging;
\* its caller selectModelFinal then logs the warning of line 538.
C3_CaughtFalse ==
  \A p \in Procs :
    \A k \in DOMAIN call[p].events :
      (call[p].events[k].kind = "throw" /\ call[p].events[k].fn \in GuardedFunctions) =>
        /\ call[p].ret.kind # "raised"
        /\ IF call[p].entry = "selectModelFinal" /\ call[p].events[k].fn = "isModelSelectionAvailable"
           THEN /\ StraightFalse(call[p], k)
                /\ k + 2 \in DOMAIN call[p].events
                /\ call[p].events[k + 2] = Event("log", "selectModelFinal", "warn")
           ELSE LoggedThenFalse(call[p], k)

\* A primitive threw in the middle of setModelFinal, which returned false
C3_Witness ==
  \E p \in Procs :
    /\ call[p].pc = "done" /\ call[p].entry = "setModelFinal"
    /\ Dispatched(call[p], {"click:More"})
    /\ Happened(call[p], Event("throw", "setModelFinal", ""))
    /\ call[p].ret = ReturnedBoolean(FALSE)

\* C4: when the text read by Detect contains the target's display label, the
\* engine (each setModel version, setModelFinal) returns true and has
\* dispatched no click, no key press and no settle delay.
C4_AlreadyMatchesNoMutation ==
  \A p \in Procs :
    (~ call[p].cur.null /\ includes(call[p].cur.text, call[p].target)) =>
      /\ call[p].pc = "done"
      /\ \/ Happened(call[p], Event("return", "setModel", "true"))
         \/ Happened(call[p], Event("return", "setModelFinal", "true"))
      /\ ~ Dispatched(call[p], Mutations)
      /\ call[p].ret.kind = "returned"
      /\ call[p].entry \in {"setModel_1", "setModel_2", "setModelFinal"} => call[p].ret.bool

\* The second version of setModel found its target already selected
C4_Witness ==
  \E p \in Procs :
    /\ call[p].entry = "setModel_2" /\ call[p].pc = "done"
    /\ ~ call[p].cur.null /\ includes(call[p].cur.text, call[p].target)
    /\ call[p].ret = ReturnedBoolean(TRUE)

\* C5: of two consecutive invocations with the same target on the same page,
\* the first having matched or reported success and no page primitive
\* having failed, the second dispatches no click and ends in AlreadyMatches.
C5_SecondCallClicksNothing ==
  (/\ call[2].pc # "idle"
   /\ \A p \in Procs : \A k \in DOMAIN call[p].events : call[p].events[k].kind # "throw") =>
    /\ ~ Dispatched(call[2], Clicks)
    /\ call[2].pc = "done" => (~ call[2].cur.null /\ includes(call[2].cur.text, call[2].target))

\* C6: when isModelSelectionAvailable reports false, selectModel and
\* selectModelFinal return the validated canonical name, never enter the
\* engine and dispatch no page mutation.
C6_UnavailableShortCircuit ==
  \A p \in Procs :
    (/\ call[p].entry \in {"selectModel", "selectModelFinal"}
     /\ Happened(call[p], Event("return", "isModelSelectionAvailable", "false"))) =>
      /\ call[p].pc = "done"
      /\ call[p].ret = ReturnedString(getValidatedModel(call[p].arg).value)
      /\ call[p].ret.str \in CatalogNames
      /\ ~ Dispatched(call[p], Mutations \cup {"detect", "search"})
      /\ \A k \in DOMAIN call[p].events : call[p].events[k].fn \notin {"setModel", "setModelFinal"}

\* selectModelFinal found no model control on a page that has buttons
C6_Witness ==
  \E p \in Procs :
    /\ call[p].entry = "selectModelFinal" /\ call[p].pc = "done"
    /\ call[p].events = << Event("return", "isModelSelectionAvailable", "false"),
                           Event("log", "selectModelFinal", "warn") >>
    /\ call[p].ret = ReturnedString(AVAILABLE_MODELS[2].name)
    /\ page.modelBtn = Labels[6]

\* v is k with each letter in either case
IsCaseVariant(v, k) ==
  /\ Len(v) = Len(k)
  /\ \A i \in 1..Len(k) : v[i] \in {toLowerCaseChar(k[i]), toUpperCaseChar(k[i])}

\* No catalog entry's name, displayName or selectorText equals, ignoring
\* case, the input with its surrounding whitespace removed
ResolutionMiss(s) ==
  \A i \in DOMAIN AVAILABLE_MODELS :
    \A key \in {AVAILABLE_MODELS[i].name, AVAILABLE_MODELS[i].displayName,
                AVAILABLE_MODELS[i].selectorText} :
      ~ IsCaseVariant(trim(s), key)

\* C7: getValidatedModel(undefined) and getValidatedModel("") return the
\* name of the one default entry, "claude-sonnet-4.6", without consulting the
\* resolver or the policy.
C7_AbsentGivesDefault ==
  (/\ pure.pc = "done" /\ pure.fn = "getValidatedModel"
   /\ (~ pure.arg.present \/ pure.arg.s = <<>>)) =>
    /\ pure.res.kind = "return"
    /\ pure.res.value = <<"c","l","a","u","d","e","-","s","o","n","n","e","t","-","4",".","6">>
    /\ pure.res.value = DefaultName
    /\ Cardinality({i \in DOMAIN AVAILABLE_MODELS : AVAILABLE_MODELS[i].isDefault}) = 1
    /\ pure.res.consulted = {}
    /\ ~ pure.res.warned

\* getValidatedModel("") has returned
C7_Witness ==
  /\ pure.pc = "done" /\ pure.fn = "getValidatedModel"
  /\ pure.arg.present /\ pure.arg.s = <<>>
  /\ pure.res.kind = "return"

\* C8: for a non-empty input that resolves to no catalog entry,
\* getValidatedModel logs a warning and returns the default model's name.
C8_MissGivesDefault ==
  (/\ pure.pc = "done" /\ pure.fn = "getValidatedModel"
   /\ pure.arg.present /\ pure.arg.s # <<>>
   /\ ResolutionMiss(pure.arg.s)) =>
    /\ pure.res.kind = "return"
    /\ pure.res.warned
    /\ pure.res.value = DefaultName

\* C9: for an input that resolves to an entry whose canonical name matches a
\* banned pattern ("sonar" in any casing), getValidatedModel logs a warning
\* and returns the default model's name, never the banned name.
C9_BannedGivesDefault ==
  (/\ pure.pc = "done" /\ pure.fn = "getValidatedModel"
   /\ pure.arg.present /\ pure.arg.s # <<>>
   /\ \E i \in DOMAIN AVAILABLE_MODELS :
        /\ IsCaseVariant(trim(pure.arg.s), AVAILABLE_MODELS[i].name)
        /\ \E b \in DOMAIN BANNED_MODEL_PATTERNS :
             IsCaseVariant(trim(AVAILABLE_MODELS[i].name), BANNED_MODEL_PATTERNS[b])) =>
    /\ pure.res.kind = "return"
    /\ pure.res.warned
    /\ pure.res.value = DefaultName

\* C10: for every casing variant of the name or displayName of a non-banned
\* catalog entry e, getValidatedModel returns e.name; hence inputs that
\* differ only in letter case give the same result.
C10_CaseInsensitive ==
  (/\ pure.pc = "done" /\ pure.fn = "getValidatedModel" /\ pure.arg.present) =>
    /\ \A i \in DOMAIN AVAILABLE_MODELS :
         (/\ \A b \in DOMAIN BANNED_MODEL_PATTERNS :
               ~ IsCaseVariant(AVAILABLE_MODELS[i].name, BANNED_MODEL_PATTERNS[b])
          /\ \/ IsCaseVariant(pure.arg.s, AVAILABLE_MODELS[i].name)
             \/ IsCaseVariant(pure.arg.s, AVAILABLE_MODELS[i].displayName)) =>
           /\ pure.res.kind = "return"
           /\ pure.res.value = AVAILABLE_MODELS[i].name
    /\ pure.res = getValidatedModel(Present(toUpperCase(pure.arg.s)))
    /\ pure.res = getValidatedModel(Present(toLowerCase(pure.arg.s)))

\* A mixed-case variant of a display name has been validated
C10_Witness ==
  /\ pure.pc = "done" /\ pure.fn = "getValidatedModel" /\ pure.arg.present
  /\ IsCaseVariant(pure.arg.s, AVAILABLE_MODELS[2].displayName)
  /\ pure.arg.s \notin {AVAILABLE_MODELS[2].displayName,
                        toLowerCase(AVAILABLE_MODELS[2].displayName),
                        toUpperCase(AVAILABLE_MODELS[2].displayName)}
  /\ pure.res.kind = "return"
  /\ pure.res.value = AVAILABLE_MODELS[2].name

\* C11: isModelAllowed returns false exactly for the casing variants of the
\* banned words, with or without surrounding whitespace, and true for every
\* other string, such as one that only contains a banned word.
C11_WholeWordPolicy ==
  (pure.pc = "done" /\ pure.fn = "isModelAllowed") =>
    /\ pure.res.kind = "return"
    /\ pure.res.value =
         ~ \E k \in DOMAIN BANNED_MODEL_PATTERNS :
              IsCaseVariant(trim(pure.arg.s), BANNED_MODEL_PATTERNS[k])
    /\ includes(pure.arg.s, <<"s","o","n","n","e","t">>) => pure.res.value

\* A mixed-case "sonar" between blanks was rejected
C11_Witness ==
  /\ pure.pc = "done" /\ pure.fn = "isModelAllowed"
  /\ pure.arg.s = <<" ","s","O","n","A","r"," ">>
  /\ pure.res.value = FALSE

\* The entries of which key (a field name) equals s ignoring case
KeyHits(key, s) ==
  { i \in DOMAIN AVAILABLE_MODELS : IsCaseVariant(s, AVAILABLE_MODELS[i][key]) }

\* The least element of a non-empty set of indices
First(hits) == CHOOSE i \in hits : \A j \in hits : i <= j

\* C12: getModelConfig returns the first entry whose canonical identifier
\* equals the trimmed input ignoring case, else the first whose display label
\* does, else the first whose selector label does, else undefined.
C12_ResolutionOrder ==
  (pure.pc = "done" /\ pure.fn = "getModelConfig") =>
    LET s == trim(pure.arg.s)
    IN  /\ pure.res.kind = "return"
        /\ pure.res.value =
             IF KeyHits("name", s) # {} THEN First(KeyHits("name", s))
             ELSE IF KeyHits("displayName", s) # {} THEN First(KeyHits("displayName", s))
             ELSE IF KeyHits("selectorText", s) # {} THEN First(KeyHits("selectorText", s))
             ELSE 0

\* A display label between blanks resolved to its entry, no identifier matching
C12_Witness ==
  /\ pure.pc = "done" /\ pure.fn = "getModelConfig"
  /\ pure.arg.s = <<" ">> \o AVAILABLE_MODELS[2].displayName \o <<" ">>
  /\ KeyHits("name", trim(pure.arg.s)) = {}
  /\ pure.res.value = 2

\* C13: once operations have started, and whatever they have done, the
\* catalog has pairwise distinct names, pairwise distinct display labels,
\* exactly one default entry, a selector label equal to the display label in
\* every entry, and no empty name or label.
C13_CatalogIntegrity ==
  (\E p \in Procs : call[p].pc # "idle") =>
    /\ \A i, j \in DOMAIN AVAILABLE_MODELS :
         i # j => /\ AVAILABLE_MODELS[i].name # AVAILABLE_MODELS[j].name
                  /\ AVAILABLE_MODELS[i].displayName # AVAILABLE_MODELS[j].displayName
    /\ Cardinality({ i \in DOMAIN AVAILABLE_MODELS : AVAILABLE_MODELS[i].isDefault }) = 1
    /\ \A i \in DOMAIN AVAILABLE_MODELS :
         /\ AVAILABLE_MODELS[i].selectorText = AVAILABLE_MODELS[i].displayName
         /\ AVAILABLE_MODELS[i].name # <<>>
         /\ AVAILABLE_MODELS[i].displayName # <<>>
         /\ AVAILABLE_MODELS[i].selectorText # <<>>

\* Two invocations that read the catalog have run to their end
C13_Witness ==
  /\ \A p \in Procs : call[p].pc = "done" /\ call[p].entry = "selectModelFinal"
  /\ Dispatched(call[2], Clicks)
  /\ Cardinality({ i \in DOMAIN AVAILABLE_MODELS : AVAILABLE_MODELS[i].isDefault }) = 1

\* C17: if the catalog has a default entry, getDefaultModel and
\* getValidatedModel never raise; the missing default is the only condition
\* that aborts validation.
C17_OnlyMissingDefaultAborts ==
  (/\ pure.pc = "done" /\ pure.fn = "getValidatedModel"
   /\ \E i \in DOMAIN AVAILABLE_MODELS : AVAILABLE_MODELS[i].isDefault) =>
    /\ getDefaultModel.kind = "return"
    /\ pure.res.kind = "return"

\* The page operations of an invocation, in the order they were dispatched
OpsOf(c) ==
  LET ops == SelectSeq(c.events, LAMBDA e : e.kind = "op")
  IN  [i \in DOMAIN ops |-> ops[i].val]

\* The clicks the search of the engine may dispatch
Activations == {"click:option", "click:container", "click:button"}

\* C14: in one invocation of the final engine the page operations come in
\* the order Detect, Expand click, its settle, Search, Activate click, its
\* settle, toggle query and read, toggle click, its settle; each operation
\* directly follows the completion of the one before it.
C14_StepOrder ==
  \A p \in Procs :
    call[p].entry \in {"setModelFinal", "selectModelFinal"} =>
      LET ops == OpsOf(call[p])
      IN  \A i \in DOMAIN ops :
            /\ ops[i] = "detect" => i = 1
            /\ ops[i] = "click:More" => (i = 2 /\ ops[1] = "detect")
            /\ ops[i] = "search" =>
                 (i = 4 /\ ops[3] = "settle" /\ ops[2] = "click:More")
            /\ ops[i] \in Activations => (i > 1 /\ ops[i - 1] = "search")
            /\ ops[i] = "settle" =>
                 (i > 1 /\ ops[i - 1] \in {"click:More", "click:toggle"} \cup Activations)
            /\ ops[i] = "query:toggle" =>
                 (i > 2 /\ ops[i - 1] = "settle" /\ ops[i - 2] \in Activations)
            /\ ops[i] \in {"read:on", "read:off"} => (i > 1 /\ ops[i - 1] = "query:toggle")
            /\ ops[i] = "click:toggle" => (i > 1 /\ ops[i - 1] = "read:off")

\* An invocation went through every step, the toggle click included
C14_Witness ==
  \E p \in Procs :
    /\ call[p].entry = "setModelFinal" /\ call[p].pc = "done"
    /\ OpsOf(call[p]) = << "detect", "click:More", "settle", "search", "click:container",
                           "settle", "query:toggle", "read:off", "click:toggle", "settle" >>

\* How many times the operation was dispatched in the invocation
Count(c, op) == Cardinality({ i \in DOMAIN c.events : c.events[i] = Event("op", "", op) })

NoThrow(c) == \A k \in DOMAIN c.events : c.events[k].kind # "throw"

\* C15: enableReasoningMode that reads the toggle on returns true without a
\* click; reading it off, and no primitive failing, it dispatches exactly one
\* click and then settles.  Two consecutive calls on a page whose toggle
\* turns on when clicked dispatch one click in total when the toggle was off,
\* and none when it was on.
C15_EnableIdempotent ==
  /\ \A p \in Procs :
       call[p].entry = "enableReasoningMode" =>
         /\ Dispatched(call[p], {"read:on"}) =>
              /\ call[p].pc = "done"
              /\ call[p].ret = ReturnedBoolean(TRUE)
              /\ ~ Dispatched(call[p], Mutations)
         /\ (call[p].pc = "done" /\ Dispatched(call[p], {"read:off"}) /\ NoThrow(call[p])) =>
              /\ OpsOf(call[p]) = <<"read:off", "click:toggle", "settle">>
              /\ call[p].ret = ReturnedBoolean(TRUE)
         /\ Count(call[p], "click:toggle") <= 1
  /\ (/\ \A p \in Procs : /\ call[p].pc = "done" /\ call[p].entry = "enableReasoningMode"
                          /\ NoThrow(call[p])
      /\ page.responsive) =>
       /\ Count(call[1], "click:toggle") + Count(call[2], "click:toggle")
            = IF Dispatched(call[1], {"read:off"}) THEN 1 ELSE 0
       /\ Count(call[2], "click:toggle") = 0

\* The first call clicked the toggle on, the second found it on
C15_Witness ==
  /\ \A p \in Procs : call[p].pc = "done" /\ call[p].entry = "enableReasoningMode"
  /\ OpsOf(call[1]) = <<"read:off", "click:toggle", "settle">>
  /\ OpsOf(call[2]) = <<"read:on">>
  /\ page.toggle = "on"

\* C16: isReasoningToggleAvailable only queries the page and returns false
\* when the query fails; enableReasoningMode never raises, returns false when
\* the toggle is absent or the read, the click or the settle fails, and
\* returns true only if it read the toggle on or dispatched a click.
C16_ToggleBestEffort ==
  \A p \in Procs :
    /\ call[p].entry = "isReasoningToggleAvailable" =>
         /\ ~ Dispatched(call[p], Mutations)
         /\ call[p].ret.kind # "raised"
         /\ (call[p].pc = "done" /\ ~ NoThrow(call[p])) => call[p].ret = ReturnedBoolean(FALSE)
         /\ (call[p].pc = "done" /\ NoThrow(call[p])) =>
              call[p].ret = ReturnedBoolean(page.toggle # "absent" /\ page.listOpen)
    /\ call[p].entry = "enableReasoningMode" =>
         /\ call[p].ret.kind # "raised"
         /\ (call[p].pc = "done" /\ ~ NoThrow(call[p])) => call[p].ret = ReturnedBoolean(FALSE)
         /\ (call[p].pc = "done" /\ (page.toggle = "absent" \/ ~ page.listOpen)) =>
              call[p].ret = ReturnedBoolean(FALSE)
         /\ (call[p].pc = "done" /\ call[p].ret = ReturnedBoolean(TRUE)) =>
              Dispatched(call[p], {"read:on", "click:toggle"})
    /\ \A k \in DOMAIN call[p].events :
         (/\ call[p].events[k].kind = "throw"
          /\ call[p].events[k].fn \in {"isReasoningToggleAvailable", "enableReasoningMode"}) =>
           LoggedThenFalse(call[p], k)

\* enableReasoningMode, called where there is no toggle, returned false
C16_Witness ==
  \E p \in Procs :
    /\ call[p].entry = "enableReasoningMode" /\ call[p].pc = "done"
    /\ page.toggle = "absent"
    /\ OpsOf(call[p]) = <<"read:off">>
    /\ Happened(call[p], Event("throw", "enableReasoningMode", ""))
    /\ call[p].ret = ReturnedBoolean(FALSE)

\* C18: when Detect reads a label that is neither the target nor "More",
\* the final engine skips Expand, still performs Search and Activate, and
\* reports failure only if no element contains the target's display label.
C18_SearchWithoutExpand ==
  \A p \in Procs :
    (/\ call[p].entry \in {"setModelFinal", "selectModelFinal"}
     /\ call[p].pc = "done" /\ NoThrow(call[p])
     /\ ~ call[p].cur.null
     /\ call[p].cur.text # MoreText
     /\ ~ includes(call[p].cur.text, call[p].target)) =>
      /\ ~ Dispatched(call[p], {"click:More"})
      /\ Dispatched(call[p], {"search"})
      /\ Happened(call[p], Event("return", "setModelFinal", "false")) =>
           \A k \in DOMAIN Elements(page) : ~ includes(Elements(page)[k].text, call[p].target)

\* C19: Detect never reports "More" when the page has a button that shows a
\* model name its pattern knows, so an engine whose target is the label shown
\* by that button ends in AlreadyMatches with no click, wherever the "More"
\* button stands.
C19_DetectSkipsMore ==
  \A p \in Procs :
    (/\ call[p].entry \in {"setModel_1", "selectModel", "setModelFinal", "selectModelFinal"}
     /\ OpsOf(call[p]) = <<"detect">>
     /\ (p = 2 \/ call[2].pc = "idle")
     /\ testAnyOf(AvailablePattern \cap CurrentPattern, page.modelBtn)) =>
      /\ call[p].cur # Text(MoreText)
      /\ page.modelBtn = call[p].target =>
           /\ call[p].pc = "done"
           /\ \/ Happened(call[p], Event("return", "setModel", "true"))
              \/ Happened(call[p], Event("return", "setModelFinal", "true"))

\* C20: selectModel, selectModelFinal and setModel with a model name compare
\* the page text with the display label / selector label of the catalog
\* entry, never with its canonical identifier.
C20_TargetIsDisplayLabel ==
  \A p \in Procs :
    (/\ call[p].entry \in {"selectModel", "selectModelFinal", "setModel_2"}
     /\ Dispatched(call[p], {"detect"})) =>
      /\ \E i \in DOMAIN AVAILABLE_MODELS :
            call[p].target \in {AVAILABLE_MODELS[i].displayName, AVAILABLE_MODELS[i].selectorText}
      /\ \A i \in DOMAIN AVAILABLE_MODELS :
            AVAILABLE_MODELS[i].name # AVAILABLE_MODELS[i].displayName =>
              call[p].target # AVAILABLE_MODELS[i].name

\* The invocation whose steps were the last to touch the page
Latest(p) == p = 2 \/ call[2].pc = "idle"

\* C21: isModelSelectionAvailable returns true exactly when some button's
\* text matches a model-name pattern or is "More"; it returns true whenever a
\* button shows the display label of a catalog model, and it knows every
\* model name that Detect (getCurrentlySelectedModel) knows.
C21_AvailableKnowsCatalog ==
  \A p \in Procs :
    (/\ call[p].entry \in {"selectModel", "selectModelFinal"}
     /\ Latest(p) /\ NoThrow(call[p]) /\ OpsOf(call[p]) = <<>>
     /\ \E b \in {"true", "false"} :
          Happened(call[p], Event("return", "isModelSelectionAvailable", b))) =>
      /\ Happened(call[p], Event("return", "isModelSelectionAvailable", "true"))
           <=> \E k \in DOMAIN Buttons(page) :
                  \/ Buttons(page)[k] = MoreText
                  \/ \E i \in DOMAIN AVAILABLE_MODELS :
                        includes(Buttons(page)[k], AVAILABLE_MODELS[i].displayName)
      /\ (\E i \in DOMAIN AVAILABLE_MODELS : page.modelBtn = AVAILABLE_MODELS[i].displayName) =>
           Happened(call[p], Event("return", "isModelSelectionAvailable", "true"))
      /\ testAnyOf(CurrentPattern, page.modelBtn) =>
           Happened(call[p], Event("return", "isModelSelectionAvailable", "true"))

\* The lookup among the [role="menuitem"] elements of the dropdown
\* (selectModelFromDropdown) was run in the invocation
ScopedLookupTried(c) == c.entry = "setModel_2" /\ Dispatched(c, {"search"})

\* The search over every element of the document (setModelFinal) was run
FullDocumentSearchTried(c) ==
  c.entry \in {"setModelFinal", "selectModelFinal"} /\ Dispatched(c, {"search"})

\* The engine searched, found nothing to click and reported failure
NotFound(c) ==
  /\ c.pc = "done" /\ NoThrow(c)
  /\ Dispatched(c, {"search"})
  /\ ~ Dispatched(c, Activations)
  /\ \/ Happened(c, Event("return", "setModel", "false"))
     \/ Happened(c, Event("return", "setModelFinal", "false"))

\* C22: the engine reports NotFound only after it has tried both the lookup
\* among the menu items of the dropdown and, that one failing, the search
\* over the whole document.
C22_BothStrategiesTried ==
  \A p \in Procs :
    (call[p].entry \in {"setModel_2", "setModelFinal", "selectModelFinal"} /\ NotFound(call[p])) =>
      /\ ScopedLookupTried(call[p])
      /\ FullDocumentSearchTried(call[p])

\* C23: an invocation that clicked the model button or "More" dispatches the
\* Escape key before it returns, whether it succeeded or failed.
C23_ClosesWhatItOpened ==
  \A p \in Procs :
    (call[p].pc = "done" /\ Dispatched(call[p], {"click:More", "click:modelButton"})) =>
      \E i, j \in DOMAIN call[p].events :
         /\ i < j
         /\ call[p].events[i] \in {Event("op", "", "click:More"), Event("op", "", "click:modelButton")}
         /\ call[p].events[j] = Event("op", "", "key:Escape")

\* C24: the engine clicks the toggle only when, in the same invocation, an
\* option click for the target was dispatched, the target's label contains
\* "Claude" or the Russian word for reasoning, the toggle is present and it
\* was read as not engaged.
C24_ToggleClickGuarded ==
  \A p \in Procs :
    (/\ call[p].entry \in {"setModelFinal", "selectModelFinal"}
     /\ Dispatched(call[p], {"click:toggle"})) =>
      /\ Dispatched(call[p], {"click:option"})
      /\ \/ includes(call[p].target, <<"C","l","a","u","d","e">>)
         \/ includes(call[p].target,
                     <<"RU_R","ru_a","ru_s","ru_s","ru_u","ru_zh","ru_d","ru_e","ru_n","ru_i","ru_e">>)
      /\ Happened(call[p], Event("return", "isReasoningToggleAvailable", "true"))
      /\ Dispatched(call[p], {"read:off"})
      /\ ~ Dispatched(call[p], {"read:on"})

\* C25: setModelFinal returns true if and only if the target was already
\* selected or an option click for the target was dispatched, false with a
\* logged warning otherwise, and never raises; the toggle step does not
\* change the result.
C25_ResultReportsDispatch ==
  \A p \in Procs :
    (call[p].entry = "setModelFinal" /\ call[p].pc = "done") =>
      /\ call[p].ret.kind = "returned"
      /\ call[p].ret.bool <=>
           \/ (~ call[p].cur.null /\ includes(call[p].cur.text, call[p].target)
               /\ ~ Dispatched(call[p], Mutations))
           \/ Dispatched(call[p], {"click:option"})
      /\ ~ call[p].ret.bool => Happened(call[p], Event("log", "setModelFinal", "warn"))

\* C26: after the Activate click and its settle delay the engine reads the
\* active-model text again before it reports its result.
C26_VerifiesAfterActivate ==
  \A p \in Procs :
    (/\ call[p].entry \in {"setModel_1", "selectModel", "setModelFinal", "selectModelFinal"}
     /\ call[p].pc = "done" /\ NoThrow(call[p])
     /\ Dispatched(call[p], Activations)) =>
      \E i, j \in DOMAIN call[p].events :
         /\ i < j
         /\ call[p].events[i].kind = "op" /\ call[p].events[i].val \in Activations
         /\ call[p].events[j] = Event("op", "", "detect")

\* C28: when the expanded list shows the target's label, the click of the
\* final engine goes to the option (the innermost element with the label, or
\* its menu-item ancestor), never to a container of the option such as the
\* list or the document root.
C28_ActivateHitsOption ==
  \A p \in Procs :
    (/\ call[p].entry \in {"setModelFinal", "selectModelFinal"}
     /\ Dispatched(call[p], {"search"})) =>
      /\ ~ Dispatched(call[p], {"click:container"})
      /\ Dispatched(call[p], Activations) => Dispatched(call[p], {"click:option"})

\* The clicks of the invocation on the "More" button or on the model button
Expansions(c) == Count(c, "click:More") + Count(c, "click:modelButton")

\* The clicks of the invocation dispatched by its search
ActivationsOf(c) ==
  Count(c, "click:option") + Count(c, "click:container") + Count(c, "click:button")

\* C27: every invocation, once started, comes to its end (control is back
\* with the caller, with a result or with the error of the validator),
\* provided every page primitive returns, throws or times out; and it
\* repeats no step: at most one click on "More" or the model button, at
\* most one click by the search, at most one toggle click.
C27_TerminatesWithoutRetry ==
  /\ [](\A p \in Procs : /\ Expansions(call[p]) <= 1
                         /\ ActivationsOf(call[p]) <= 1
                         /\ Count(call[p], "click:toggle") <= 1)
  /\ \A p \in Procs : (call[p].pc \notin {"idle", "done"}) ~> (call[p].pc = "done")

\* selectModelFinal returned after one click of each kind
C27_Witness ==
  \E p \in Procs :
    /\ call[p].entry = "selectModelFinal" /\ call[p].pc = "done"
    /\ call[p].ret.kind = "returned"
    /\ Expansions(call[p]) = 1
    /\ ActivationsOf(call[p]) = 1
    /\ Count(call[p], "click:toggle") = 1

\* C29: no display label of the catalog is a substring of the display label
\* of another entry; so when the text the engine detected is the label of
\* one catalog model and the already-selected test against the label of a
\* target succeeds, the two are the same model.
C29_LabelsDoNotNest ==
  \A p \in Procs :
    (call[p].pc # "idle" /\ ~ call[p].cur.null) =>
      /\ \A i, j \in DOMAIN AVAILABLE_MODELS : i # j => ~ includes(Labels[i], Labels[j])
      /\ \A i, j \in DOMAIN AVAILABLE_MODELS :
            (/\ call[p].cur.text = Labels[i]
             /\ call[p].target = Labels[j]
             /\ AlreadySelected(call[p].cur, call[p].target)) => i = j

\* An invocation found its target already selected: the detected text is
\* the label of the target, and the engine returned true without a click
C29_Witness ==
  \E p \in Procs :
    /\ call[p].pc = "done"
    /\ call[p].cur = Text(Labels[1]) /\ call[p].target = Labels[1]
    /\ AlreadySelected(call[p].cur, call[p].target)
    /\ EngineSucceeded(call[p])
    /\ ~ Dispatched(call[p], Mutations)

\* C30: all the entries that the trimmed input equals, ignoring case, by
\* identifier, by display label or by selector label are one entry, and
\* getModelConfig returns that entry (none when there is none): its result
\* does not depend on the order of the three lookups.
C30_ResolutionUnambiguous ==
  (pure.pc = "done" /\ pure.fn = "getModelConfig") =>
    LET s    == trim(pure.arg.s)
        hits == KeyHits("name", s) \cup KeyHits("displayName", s) \cup KeyHits("selectorText", s)
    IN  /\ Cardinality(hits) <= 1
        /\ hits = IF pure.res.value = 0 THEN {} ELSE {pure.res.value}

\* An input that is the identifier of an entry and, in another casing, its
\* label resolved to that entry
C30_Witness ==
  /\ pure.pc = "done" /\ pure.fn = "getModelConfig"
  /\ pure.arg.s = <<"S","O","N","A","R">>
  /\ KeyHits("name", trim(pure.arg.s)) = {9}
  /\ KeyHits("displayName", trim(pure.arg.s)) = {9}
  /\ pure.res.value = 9

\* C31: two invocations of setModelFinal for one target on one page each
\* return a boolean and never raise, however their steps interleave; and
\* when one of them runs after the other has ended (its Detect reads the
\* page the finished invocation left, the page answering and the finished
\* invocation having clicked and reported success), it finds the target
\* selected and dispatches no click: only overlapping invocations both click.
C31_OnlyOverlapRepeatsClicks ==
  /\ [](\A p \in Procs : call[p].pc = "done" => call[p].ret.kind = "returned")
  /\ [][\A p, q \in Procs :
          (/\ p # q
           /\ call[p].pc = "done" /\ call[p].ret = ReturnedBoolean(TRUE)
           /\ Dispatched(call[p], Clicks) /\ NoThrow(call[p])
           /\ page.responsive
           /\ call[q].pc = "s3_current" /\ call'[q].pc # "s3_current"
           /\ NoThrow(call'[q])) =>
            /\ call'[q].pc = "done"
            /\ AlreadySelected(call'[q].cur, call'[q].target)
            /\ ~ Dispatched(call'[q], Clicks)]_vars

====
